---- MODULE Spec2Model ----
(***************************************************************************)
(* Mempool-Sniper: the Event Source (internal/listener/listener.go).       *)
(*                                                                         *)
(* The Listener owns two connection handles (client, rpcClient), the       *)
(* running flag, the start timestamp and the transaction count.  Start     *)
(* launches three goroutines (head processor, pending-subscription loop,   *)
(* head monitor); the head monitor launches the reconnect loop on a head   *)
(* subscription error.  Every section of code that runs under l.mu is one  *)
(* atomic action; every blocking call or select is a step of its own.      *)
(***************************************************************************)
EXTENDS Integers, FiniteSets, Sequences, TLC

(* ---- bounds of the model ---- *)

\* Number of Start calls made on the Listener through its API (each caller calls
\* Start once; caller 1 is the call of main).
NumCallers == 2

\* Number of successful NewListener dials the upstream grants to reconnect.
MaxGen == 1

\* The retry counters, which the code only logs, saturate here.
MaxRetry == 6

\* Number of identifiers the pending subscription delivers, each to a fetch task of its own.
NumTasks == 2

\* Capacity of the channel between Fetch and Filter/Decode (main makes it with 100).
TxChanCap == 1

\* Number of Decoder workers (main starts 5).
NumDecoders == 2

\* Number of Simulator workers main starts (3 in main.go).
NumSimulators == 1

\* Number of Simulator workers a call of StartWorkerPool starts (its workerCount).
PoolSize == 2

\* Capacity of the channel between Estimation and the result processor (main makes it with 100).
ProfitChanCap == 1

\* Capacity of the channel the owner of the Simulator feeds its workers through.
DecodedChanCap == 1

\* Number of sends the owner of decodedTxChan makes.
MaxFeed == 3

\* Number of calls of an exported method (DecodeTransaction, SimulateTransaction).
MaxCalls == 2

\* In the run of the whole of main, the number of attempts in a row the upstream
\* refuses while the context is alive.
MaxRefusals == 1

(* ---- program constants ---- *)

\* for i := 0; i < 3; i++
MaxAttempts == 3

\* time.Duration(i+1) * 100 * time.Millisecond (milliseconds)
RetryUnitMs == 100

\* len(tx.Data) < 4, tx.Data[:4]
SelectorLen == 4

\* backoff := time.Second (seconds)
InitialBackoff == 1

\* maxBackoff := 30 * time.Second (seconds)
maxBackoff == 30

\* The caller of main: go listener.Start(ctx, txChan).
MainCall == 1

Callers == 1..NumCallers

\* Connection handles are named by the dial that made them: 0 is the pair
\* NewListener made at construction, g > 0 the pair of the g-th reconnect.
Handles == 0..MaxGen

Tasks == 1..NumTasks
DecWorkers == 1..NumDecoders
Hashes == 1..MaxFeed
SimWorkers == 1..PoolSize

(* ---- the data: addresses, payloads, transaction records ---- *)

\* A nil *common.Address: the transaction creates a contract.
NilAddress == "nil"

\* common.Address{}: the zero address, the code's stand-in for the native currency.
ZeroAddress == "0x0000000000000000000000000000000000000000"

UniswapV2Router == "0x7a250d5630B4cF539739dF2C5dAcb4c659F2488D"
UniswapV3Router == "0xE592427A0AEce92De3Edee1F18E0157C05861564"
SushiSwapRouter == "0xd9e1cE17f2641f24aE83637ab66a2cca9C378B9F"

\* An address that is no key of SupportedDEX.
OtherAddress == "0xdAC17F958D2ee523a2206206994597C13D831ec7"

\* SupportedDEX, as the set of its keys.
SupportedDEX == {UniswapV2Router, UniswapV3Router, SushiSwapRouter}

MethodSwapExactETHForTokens == <<127, 243, 106, 181>>
MethodSwapExactTokensForETH == <<24, 203, 175, 5>>
MethodSwapExactTokensForTokens == <<56, 237, 23, 57>>

\* SupportedSwapMethods: name -> selector.
SupportedSwapMethods ==
    [name \in {"swapExactETHForTokens", "swapExactTokensForETH", "swapExactTokensForTokens"} |->
        CASE name = "swapExactETHForTokens" -> MethodSwapExactETHForTokens
          [] name = "swapExactTokensForETH" -> MethodSwapExactTokensForETH
          [] name = "swapExactTokensForTokens" -> MethodSwapExactTokensForTokens]

\* The selector of a function that is no swap method: transfer(address,uint256).
OtherSelector == <<169, 5, 156, 187>>

\* Lengths of the argument lists the parameter parser asks for.
ArgsETHForTokens == SelectorLen + 32 * 4
ArgsTokensFor == SelectorLen + 32 * 5

\* A payload ([]byte) is held as its length and its first bytes (at most SelectorLen
\* of them): the code reads nothing else of it.
Payload(bytes, length) == [head |-> bytes, len |-> length]

Take(seq, n) == IF Len(seq) <= n THEN seq ELSE SubSeq(seq, 1, n)

\* The payload lengths the records are drawn with: the selector alone, and one
\* byte below and exactly at each argument-list length.
CallLengths == {SelectorLen, ArgsETHForTokens - 1, ArgsETHForTokens,
                ArgsTokensFor - 1, ArgsTokensFor}

Payloads ==
    {Payload(<<>>, 0), Payload(Take(MethodSwapExactETHForTokens, SelectorLen - 1), SelectorLen - 1)}
    \cup {Payload(sel, n) : sel \in {MethodSwapExactETHForTokens, MethodSwapExactTokensForETH,
                                      MethodSwapExactTokensForTokens, OtherSelector},
                            n \in CallLengths}

\* tx.Value, in wei.
Values == {0, 7}

\* types.Transaction, the fields the pipeline reads: To, Data, Value.
Transactions == [To : {NilAddress, OtherAddress} \cup SupportedDEX, Data : Payloads, Value : Values]

\* No record (a nil pointer, an empty slot).
NoTx == [To |-> "none"]

\* No decoded event (decodeTransaction returned nil).
NilDecoded == [Method |-> "nil"]

\* The records the upstream lookup returns in the pipeline runs: a contract
\* creation and a swap call to a router.
CreationTx == [To |-> NilAddress, Data |-> Payload(<<>>, 0), Value |-> 0]
SwapTx == [To |-> UniswapV2Router, Data |-> Payload(MethodSwapExactETHForTokens, ArgsETHForTokens),
           Value |-> 7]
FeedTxs == {CreationTx, SwapTx}

(* ---- math/big: integers of arbitrary precision ---- *)

\* A *big.Int is its sign and its magnitude; the magnitude is a sequence of
\* limbs in base Base, lowest limb first, the highest limb not 0 (zero is the
\* empty sequence).
Base == 10000

\* A nil *big.Int.
NilBig == [nil |-> TRUE]

RECURSIVE Norm(_)
Norm(m) ==
    IF m = <<>> THEN m
    ELSE IF m[Len(m)] = 0 THEN Norm(SubSeq(m, 1, Len(m) - 1)) ELSE m

RECURSIVE CarryLimbs(_)
CarryLimbs(c) == IF c = 0 THEN <<>> ELSE <<c % Base>> \o CarryLimbs(c \div Base)

Limb(m, i) == IF i <= Len(m) THEN m[i] ELSE 0

RECURSIVE MagCmpFrom(_, _, _)
MagCmpFrom(a, b, i) ==
    IF i = 0 THEN 0
    ELSE IF a[i] < b[i] THEN -1
    ELSE IF a[i] > b[i] THEN 1
    ELSE MagCmpFrom(a, b, i - 1)

MagCmp(a, b) ==
    IF Len(a) < Len(b) THEN -1
    ELSE IF Len(a) > Len(b) THEN 1
    ELSE MagCmpFrom(a, b, Len(a))

RECURSIVE MagAddFrom(_, _, _, _)
MagAddFrom(a, b, i, carry) ==
    IF i > Len(a) /\ i > Len(b) THEN CarryLimbs(carry)
    ELSE LET s == Limb(a, i) + Limb(b, i) + carry IN
           <<s % Base>> \o MagAddFrom(a, b, i + 1, s \div Base)

MagAdd(a, b) == MagAddFrom(a, b, 1, 0)

\* a - b for a >= b.
RECURSIVE MagSubFrom(_, _, _, _)
MagSubFrom(a, b, i, borrow) ==
    IF i > Len(a) THEN <<>>
    ELSE LET d == a[i] - Limb(b, i) - borrow IN
           IF d < 0 THEN <<d + Base>> \o MagSubFrom(a, b, i + 1, 1)
                    ELSE <<d>> \o MagSubFrom(a, b, i + 1, 0)

MagSub(a, b) == Norm(MagSubFrom(a, b, 1, 0))

RECURSIVE MagMulFrom(_, _, _, _)
MagMulFrom(a, k, i, carry) ==
    IF i > Len(a) THEN CarryLimbs(carry)
    ELSE LET p == a[i] * k + carry IN
           <<p % Base>> \o MagMulFrom(a, k, i + 1, p \div Base)

\* a * k for a machine integer 0 <= k <= 200000.
MagMulSmall(a, k) == Norm(MagMulFrom(a, k, 1, 0))

RECURSIVE MagDivFrom(_, _, _, _)
MagDivFrom(a, k, i, rem) ==
    IF i = 0 THEN <<>>
    ELSE LET n == rem * Base + a[i] IN
           MagDivFrom(a, k, i - 1, n % k) \o <<n \div k>>

\* The quotient of a by a machine integer 0 < k <= 200000, rounded down.
MagDivSmall(a, k) == Norm(MagDivFrom(a, k, Len(a), 0))

\* big.NewInt(n)
NewInt(n) ==
    IF n < 0 THEN [neg |-> TRUE, mag |-> CarryLimbs(0 - n)]
             ELSE [neg |-> FALSE, mag |-> CarryLimbs(n)]

BigOf(neg, m) == [neg |-> neg /\ m # <<>>, mag |-> m]

Sign(x) == IF x.mag = <<>> THEN 0 ELSE IF x.neg THEN -1 ELSE 1

Neg(x) == BigOf(~x.neg, x.mag)

\* x.Cmp(y): -1, 0 or 1.
Cmp(x, y) ==
    IF Sign(x) # Sign(y) THEN (IF Sign(x) < Sign(y) THEN -1 ELSE 1)
    ELSE IF Sign(x) >= 0 THEN MagCmp(x.mag, y.mag)
    ELSE MagCmp(y.mag, x.mag)

\* new(big.Int).Add(x, y)
Add(x, y) ==
    IF x.neg = y.neg THEN BigOf(x.neg, MagAdd(x.mag, y.mag))
    ELSE IF MagCmp(x.mag, y.mag) >= 0 THEN BigOf(x.neg, MagSub(x.mag, y.mag))
    ELSE BigOf(y.neg, MagSub(y.mag, x.mag))

\* new(big.Int).Sub(x, y)
Sub(x, y) == Add(x, Neg(y))

\* new(big.Int).Mul(x, new(big.Int).SetUint64(k))
MulSmall(x, k) == BigOf(x.neg, MagMulSmall(x.mag, k))

\* new(big.Int).Div(x, big.NewInt(k)) for k > 0: Euclidean division, the
\* remainder is never negative, so a negative x is rounded towards minus infinity.
DivSmall(x, k) ==
    IF x.neg THEN BigOf(TRUE, MagDivSmall(MagAdd(x.mag, CarryLimbs(k - 1)), k))
             ELSE BigOf(FALSE, MagDivSmall(x.mag, k))

RECURSIVE Pow10(_)
Pow10(n) == IF n = 0 THEN NewInt(1) ELSE MulSmall(Pow10(n - 1), 10)

Zero == NewInt(0)

\* The larger of two integers.
BigMax(x, y) == IF Cmp(x, y) >= 0 THEN x ELSE y

(* ---- the constants of the Simulator ---- *)

\* baseGas := uint64(21000)
baseGas == 21000

\* additionalGas := uint64(50000)
additionalGas == 50000

\* gasPrice = big.NewInt(30000000000): 30 Gwei
DefaultGasPrice == MulSmall(Pow10(9), 30)

\* big.NewInt(100): the profit is the hundredth part of the value
ProfitDivisor == 100

\* big.NewInt(1000000000000000000): 1 ETH
LargeValue == Pow10(18)

\* big.NewInt(100000000000): 100 Gwei
HighGasPrice == Pow10(11)

\* Success rates are counted in thousandths: baseRate := 0.8 is 800.
RateUnit == 1000
BaseRate == 800

\* baseRate *= 0.7, baseRate *= 0.9 (tenths)
LargeValueFactor == 7
HighGasPriceFactor == 9

\* successRate >= 0.9, successRate >= 0.7 (thousandths)
LowRiskRate == 900
MediumRiskRate == 700

(* ---- Estimation: the scoring functions of the Simulator ---- *)

\* The result of SimulateTransaction when s.reconnect() fails: nil.
NilAnalysis == [RiskLevel |-> "nil"]

\* No decoded event held; a nil *types.DecodedTransaction.
NoEvent == [Hash |-> 0]
NilEvent == [Hash |-> -1]

\* A nil *types.SniperConfig.
NilConfig == [nil |-> TRUE]

\* A decoded event as the Simulator reads it: Transaction.Hash,
\* Transaction.Value, Transaction.GasPrice.
Event(hash, value, gasPrice) == [Hash |-> hash, Value |-> value, GasPrice |-> gasPrice]

\* gasPrice := decodedTx.Transaction.GasPrice; if gasPrice == nil ||
\* gasPrice.Cmp(big.NewInt(0)) == 0 { gasPrice = big.NewInt(30000000000) }
EffectiveGasPrice(gasPrice) ==
    IF gasPrice = NilBig \/ Cmp(gasPrice, Zero) = 0 THEN DefaultGasPrice ELSE gasPrice

\* estimateGasCost: (baseGas + additionalGas) * gasPrice
estimateGasCost(ev) == MulSmall(EffectiveGasPrice(ev.GasPrice), baseGas + additionalGas)

\* calculateProfit: value/100 - gasCost, and 0 if that is negative.
calculateProfit(ev, gasCost) ==
    LET baseProfit == DivSmall(ev.Value, ProfitDivisor)
        netProfit == Sub(baseProfit, gasCost)
    IN IF Cmp(netProfit, Zero) < 0 THEN Zero ELSE netProfit

\* Faulty variant: the penalties apply from the thresholds on (>= for >).
calculateSuccessRateInclusive(ev) ==
    LET afterValue == IF Cmp(ev.Value, LargeValue) >= 0
                         THEN (BaseRate * LargeValueFactor) \div 10 ELSE BaseRate
    IN IF ev.GasPrice # NilBig /\ Cmp(ev.GasPrice, HighGasPrice) >= 0
          THEN (afterValue * HighGasPriceFactor) \div 10 ELSE afterValue

\* calculateSuccessRate, in thousandths: 0.8, times 0.7 for a value above 1 ETH,
\* times 0.9 for a gas price that is set and above 100 Gwei.  The four products
\* (0.8, 0.56, 0.72, 0.504) are exact in thousandths; as float64 they differ from
\* these by less than 1e-15, far from the thresholds of assessRiskLevel.
calculateSuccessRate(ev) ==
    LET afterValue == IF Cmp(ev.Value, LargeValue) > 0
                         THEN (BaseRate * LargeValueFactor) \div 10 ELSE BaseRate
    IN IF ev.GasPrice # NilBig /\ Cmp(ev.GasPrice, HighGasPrice) > 0
          THEN (afterValue * HighGasPriceFactor) \div 10 ELSE afterValue

\* Faulty variant: the thresholds are exclusive (> for >=).
assessRiskLevelExclusive(successRate) ==
    IF successRate > LowRiskRate THEN "low"
    ELSE IF successRate > MediumRiskRate THEN "medium"
    ELSE "high"

\* Faulty variant: the bucket low starts at the medium threshold.
assessRiskLevelLenient(successRate) ==
    IF successRate >= MediumRiskRate THEN "low"
    ELSE "high"

\* assessRiskLevel (the rate in thousandths)
assessRiskLevel(successRate) ==
    IF successRate >= LowRiskRate THEN "low"
    ELSE IF successRate >= MediumRiskRate THEN "medium"
    ELSE "high"

\* The ProfitAnalysis SimulateTransaction builds.  TargetContract and Method are
\* copied from the event and SimulationTime is a clock reading: they are left
\* out.  Config is never assigned.
BuildAnalysis(ev) ==
    LET gasCost == estimateGasCost(ev)
        profit == calculateProfit(ev, gasCost)
        rate == calculateSuccessRate(ev)
    IN [TxHash |-> ev.Hash,
        GasCost |-> gasCost,
        Profit |-> profit,
        NetProfit |-> Sub(profit, gasCost),
        SuccessRate |-> rate,
        RiskLevel |-> assessRiskLevel(rate),
        Config |-> NilConfig]

\* Faulty variant: every analysis returned is counted as profitable.
ProfitableIncrementAlways(analysis) == 1

\* if profitAnalysis.NetProfit.Cmp(big.NewInt(0)) > 0 { s.profitable++ }
ProfitableIncrement(analysis) == IF Cmp(analysis.NetProfit, Zero) > 0 THEN 1 ELSE 0

VARIABLES
    ctxDone,        \* the context passed to Start has been cancelled
    isRunning,      \* l.isRunning
    startTime,      \* l.startTime: 0 = set by NewListener, c = set by caller c's Start
    txCount,        \* l.txCount
    client,         \* l.client: the handle it points to
    rpcClient,      \* l.rpcClient: the handle it points to
    clientCloses,   \* per lookup-client handle, the number of Close calls made on it
    rpcCloses,      \* per RPC-client handle, the number of Close calls made on it
    gen,            \* number of successful reconnect dials so far
    callPc,         \* per caller, where its Start call is / how it returned
    headSubs,       \* callers whose head subscription is active (not unsubscribed)
    monPc,          \* per caller, the head monitor goroutine its Start launched
    procPc,         \* per caller, the processHeads goroutine its Start launched
    pendPc,         \* per caller, the subscribePendingTransactions goroutine
    pendBackoff,    \* its local backoff (seconds)
    pendRetry,      \* its local retryCount
    pendFresh,      \* history: no backoff sleep has ended since its last successful subscribe
    recPc,          \* per caller, the reconnect goroutine its head monitor launched
    recBackoff,     \* its local backoff (seconds)
    recRetry,       \* its local retryCount
    stopCalled,     \* history: Stop has been called (and has returned)
    fetchPc,        \* per fetch task (fetchAndProcessTransaction), where it is / how it ended
    fetchTry,       \* its loop variable i
    fetchDelay,     \* the delay of the time.After it waits on (milliseconds; 0 = none)
    fetchTx,        \* the transaction record it has built and is about to send
    txChan,         \* the buffered channel of main between Fetch and Filter/Decode
    decPc,          \* per Decoder worker, where it is
    decTx,          \* the record a Decoder worker has received and is decoding
    processed,      \* d.processed
    filtered,       \* d.filtered
    decoded,        \* d.decoded
    lastDecode,     \* the last call of the exported DecodeTransaction: input, result, return site
    lastFilter,     \* the last call of the exported FilterTransaction: input and result
    decodedTxChan,  \* the input channel of the Simulator workers
    simClient,      \* s.client of the Simulator: "unset" before NewSimulator, then "nil" or "open"
    simDials,       \* history: the connections ethclient.Dial has established for the Simulator
    simPc,          \* per Simulator worker, where it is
    resPc,          \* the processResults goroutine of main
    profitChan,     \* the buffered channel of main between Estimation and the result processor
    simEv,          \* the decoded event a Simulator worker has received
    simOut,         \* the ProfitAnalysis a Simulator worker is about to send
    simulated,      \* s.simulated
    profitable,     \* s.profitable
    failed,         \* s.failed
    lastEstimate,   \* the last call of the exported SimulateTransaction: input and result
    lastRisk,       \* the last call of assessRiskLevel: success rate and result
    fed,            \* number of decoded events the owner of decodedTxChan has sent
    simLog          \* history: the hashes the workers have received, sent on and dropped;
                    \* the calls of the exported SimulateTransaction

\* The Estimation stage past the start of its workers: events held, results, counters.
estVars == <<profitChan, simEv, simOut, simulated, profitable, failed, lastEstimate,
             lastRisk, fed, simLog>>

\* The fetch tasks, the channels, the Decoder, the Simulator and the result processor.
pipeVars == <<fetchPc, fetchTry, fetchDelay, fetchTx, txChan, decPc, decTx, processed,
              filtered, decoded, lastDecode, lastFilter, decodedTxChan, simClient, simDials, simPc, resPc, estVars>>

vars == <<ctxDone, isRunning, startTime, txCount, client, rpcClient, clientCloses,
          rpcCloses, gen, callPc, headSubs, monPc, procPc, pendPc, pendBackoff,
          pendRetry, pendFresh, recPc, recBackoff, recRetry, stopCalled, pipeVars>>

\* The fields of the Listener struct and the handles it has owned.
listenerVars == <<isRunning, startTime, txCount, client, rpcClient, clientCloses, rpcCloses, gen>>

\* The goroutines and subscriptions.
goVars == <<headSubs, monPc, procPc, pendPc, pendBackoff, pendRetry, pendFresh,
            recPc, recBackoff, recRetry>>

Min(a, b) == IF a < b THEN a ELSE b

\* retryCount++ ; the counter is only logged, and saturates at MaxRetry in the model.
IncRetry(n) == IF n < MaxRetry THEN n + 1 ELSE MaxRetry

\* Faulty variant: the doubling without the cap.
NextBackoffUncapped(b) == b * 2

\* backoff *= 2; if backoff > maxBackoff { backoff = maxBackoff }
NextBackoff(b) == IF b * 2 > maxBackoff THEN maxBackoff ELSE b * 2

\* Faulty variant: the backoff is not reset after a successful attempt.
KeepBackoff(b) == b

\* The backoff a loop holds after a successful attempt: backoff = time.Second.
ResetBackoff(b) == InitialBackoff

ClientOpen == clientCloses[client] = 0
RpcOpen == rpcCloses[rpcClient] = 0

\* main after NewListener and NewDecoder: both dials succeeded, isRunning false,
\* txCount 0, the Decoder counters 0, the channels empty; no goroutine yet, the
\* Simulator not yet constructed.
Init ==
    /\ ctxDone = FALSE
    /\ isRunning = FALSE
    /\ startTime = 0
    /\ txCount = 0
    /\ client = 0
    /\ rpcClient = 0
    /\ clientCloses = [h \in Handles |-> 0]
    /\ rpcCloses = [h \in Handles |-> 0]
    /\ gen = 0
    /\ callPc = [c \in Callers |-> "idle"]
    /\ headSubs = {}
    /\ monPc = [c \in Callers |-> "idle"]
    /\ procPc = [c \in Callers |-> "idle"]
    /\ pendPc = [c \in Callers |-> "idle"]
    /\ pendBackoff = [c \in Callers |-> InitialBackoff]
    /\ pendRetry = [c \in Callers |-> 0]
    /\ pendFresh = [c \in Callers |-> FALSE]
    /\ recPc = [c \in Callers |-> "idle"]
    /\ recBackoff = [c \in Callers |-> InitialBackoff]
    /\ recRetry = [c \in Callers |-> 0]
    /\ stopCalled = FALSE
    /\ fetchPc = [t \in Tasks |-> "idle"]
    /\ fetchTry = [t \in Tasks |-> 0]
    /\ fetchDelay = [t \in Tasks |-> 0]
    /\ fetchTx = [t \in Tasks |-> NoTx]
    /\ txChan = <<>>
    /\ decPc = [w \in DecWorkers |-> "idle"]
    /\ decTx = [w \in DecWorkers |-> NoTx]
    /\ processed = 0
    /\ filtered = 0
    /\ decoded = 0
    /\ lastDecode = [tx |-> NoTx, out |-> NilDecoded, site |-> "none"]
    /\ lastFilter = [tx |-> NoTx, ok |-> FALSE]
    /\ decodedTxChan = <<>>
    /\ simClient = "unset"
    /\ simDials = 0
    /\ simPc = [w \in SimWorkers |-> "idle"]
    /\ resPc = "idle"
    /\ profitChan = <<>>
    /\ simEv = [w \in SimWorkers |-> NoEvent]
    /\ simOut = [w \in SimWorkers |-> NilAnalysis]
    /\ simulated = 0
    /\ profitable = 0
    /\ failed = 0
    /\ lastEstimate = [in |-> NoEvent, out |-> NilAnalysis]
    /\ lastRisk = [rate |-> 0, level |-> "none"]
    /\ fed = 0
    /\ simLog = [recv |-> [h \in Hashes |-> 0], sent |-> [h \in Hashes |-> 0],
                 dropped |-> [h \in Hashes |-> 0], calls |-> 0]

(* ---- the environment ---- *)

\* cancel(): the owner of the context cancels it (the signal handler of main).
Cancel ==
    /\ ~ctxDone
    /\ ctxDone' = TRUE
    /\ UNCHANGED <<listenerVars, callPc, goVars, stopCalled, pipeVars>>

(* ---- Start ---- *)

\* Faulty variant: Start stamps startTime before it checks the running flag.
StartBeginStampsFirst(c) ==
    /\ callPc[c] = "idle"
    /\ startTime' = c
    /\ IF isRunning
          THEN /\ callPc' = [callPc EXCEPT ![c] = "err_running"]
               /\ UNCHANGED isRunning
          ELSE /\ isRunning' = TRUE
               /\ callPc' = [callPc EXCEPT ![c] = "subscribing"]
    /\ UNCHANGED <<ctxDone, txCount, client, rpcClient, clientCloses, rpcCloses, gen,
                   goVars, stopCalled, pipeVars>>

\* Start, the section under l.mu: the running check, isRunning = true, startTime = now.
StartBegin(c) ==
    /\ callPc[c] = "idle"
    /\ IF isRunning
          THEN /\ callPc' = [callPc EXCEPT ![c] = "err_running"]
               /\ UNCHANGED <<isRunning, startTime>>
          ELSE /\ isRunning' = TRUE
               /\ startTime' = c
               /\ callPc' = [callPc EXCEPT ![c] = "subscribing"]
    /\ UNCHANGED <<ctxDone, txCount, client, rpcClient, clientCloses, rpcCloses, gen,
                   goVars, stopCalled, pipeVars>>

\* l.client.SubscribeNewHead succeeded: the three goroutines are launched, Start returns nil.
StartSubscribeOk(c) ==
    /\ callPc[c] = "subscribing"
    /\ ClientOpen
    /\ ~ctxDone
    /\ headSubs' = headSubs \cup {c}
    /\ procPc' = [procPc EXCEPT ![c] = "run"]
    /\ pendPc' = [pendPc EXCEPT ![c] = "top"]
    /\ pendBackoff' = [pendBackoff EXCEPT ![c] = InitialBackoff]
    /\ pendRetry' = [pendRetry EXCEPT ![c] = 0]
    /\ monPc' = [monPc EXCEPT ![c] = "watch"]
    /\ callPc' = [callPc EXCEPT ![c] = "ok"]
    /\ UNCHANGED <<ctxDone, listenerVars, pendFresh, recPc, recBackoff, recRetry,
                   stopCalled, pipeVars>>

\* Faulty variant: the error of SubscribeNewHead is dropped and Start returns nil.
StartSubscribeErrDropped(c) ==
    /\ callPc[c] = "subscribing"
    /\ callPc' = [callPc EXCEPT ![c] = "ok"]
    /\ UNCHANGED <<ctxDone, listenerVars, goVars, stopCalled, pipeVars>>

\* l.client.SubscribeNewHead failed: isRunning = false under l.mu, Start returns the error.
StartSubscribeFail(c) ==
    /\ callPc[c] = "subscribing"
    /\ isRunning' = FALSE
    /\ callPc' = [callPc EXCEPT ![c] = "err_subscribe"]
    /\ UNCHANGED <<ctxDone, startTime, txCount, client, rpcClient, clientCloses,
                   rpcCloses, gen, goVars, stopCalled, pipeVars>>

(* ---- the head monitor goroutine of Start ---- *)

\* case <-ctx.Done(): isRunning = false under l.mu, return (deferred Unsubscribe).
MonitorCancel(c) ==
    /\ monPc[c] = "watch"
    /\ ctxDone
    /\ isRunning' = FALSE
    /\ headSubs' = headSubs \ {c}
    /\ monPc' = [monPc EXCEPT ![c] = "done"]
    /\ UNCHANGED <<ctxDone, startTime, txCount, client, rpcClient, clientCloses,
                   rpcCloses, gen, callPc, procPc, pendPc, pendBackoff, pendRetry,
                   pendFresh, recPc, recBackoff, recRetry, stopCalled, pipeVars>>

\* case err := <-headSub.Err(): go l.reconnect(ctx, txChan), return (deferred Unsubscribe).
MonitorHeadErr(c) ==
    /\ monPc[c] = "watch"
    /\ headSubs' = headSubs \ {c}
    /\ monPc' = [monPc EXCEPT ![c] = "done"]
    /\ recPc' = [recPc EXCEPT ![c] = "top"]
    /\ recBackoff' = [recBackoff EXCEPT ![c] = InitialBackoff]
    /\ recRetry' = [recRetry EXCEPT ![c] = 0]
    /\ UNCHANGED <<ctxDone, listenerVars, callPc, procPc, pendPc, pendBackoff,
                   pendRetry, pendFresh, stopCalled, pipeVars>>

(* ---- processHeads ---- *)

\* case <-ctx.Done(): return.  (A header received only logs: no state changes.)
ProcessHeadsCancel(c) ==
    /\ procPc[c] = "run"
    /\ ctxDone
    /\ procPc' = [procPc EXCEPT ![c] = "done"]
    /\ UNCHANGED <<ctxDone, listenerVars, callPc, headSubs, monPc, pendPc, pendBackoff,
                   pendRetry, pendFresh, recPc, recBackoff, recRetry, stopCalled, pipeVars>>

(* ---- subscribePendingTransactions ---- *)

\* Faulty variant: the top of the loop does not look at ctx.Done().
AfterCtxCheckSkipped(cancelled, attempt) == attempt

\* The non-blocking select on ctx.Done() at the top of a retry loop: return, or
\* go on to the attempt.
AfterCtxCheck(cancelled, attempt) == IF cancelled THEN "done" ELSE attempt

\* The locals of a goroutine that has returned are gone: the model holds their
\* initial values again.
Local(pc, value, initial) == IF pc \in {"done", "returned"} THEN initial ELSE value

\* Faulty variant: the loop gives up after three failed attempts.
GiveUpAfterThree(retries) == IF retries >= 3 THEN "done" ELSE "sleep"

\* After a failed attempt a loop sleeps and goes on: there is no give-up path.
AfterFailure(retries) == "sleep"

\* The first iteration: retryCount++ and the check of ctx.Done() at the top of the loop.
PendTop(c) ==
    /\ pendPc[c] = "top"
    /\ LET pc == AfterCtxCheck(ctxDone, "subscribe") IN
         /\ pendRetry' = [pendRetry EXCEPT ![c] = Local(pc, IncRetry(pendRetry[c]), 0)]
         /\ pendPc' = [pendPc EXCEPT ![c] = pc]
    /\ UNCHANGED <<ctxDone, listenerVars, callPc, headSubs, monPc, procPc, pendBackoff,
                   pendFresh, recPc, recBackoff, recRetry, stopCalled, pipeVars>>

\* l.rpcClient.EthSubscribe succeeded: backoff and retryCount are reset, the inner select loop starts.
PendSubscribeOk(c) ==
    /\ pendPc[c] = "subscribe"
    /\ RpcOpen
    /\ ~ctxDone
    /\ pendBackoff' = [pendBackoff EXCEPT ![c] = ResetBackoff(pendBackoff[c])]
    /\ pendRetry' = [pendRetry EXCEPT ![c] = 0]
    /\ pendFresh' = [pendFresh EXCEPT ![c] = TRUE]
    /\ pendPc' = [pendPc EXCEPT ![c] = "serve"]
    /\ UNCHANGED <<ctxDone, listenerVars, callPc, headSubs, monPc, procPc,
                   recPc, recBackoff, recRetry, stopCalled, pipeVars>>

\* l.rpcClient.EthSubscribe failed: the loop enters select { ctx.Done(), time.After(backoff) }.
PendSubscribeFail(c) ==
    /\ pendPc[c] = "subscribe"
    /\ pendPc' = [pendPc EXCEPT ![c] = AfterFailure(pendRetry[c])]
    /\ UNCHANGED <<ctxDone, listenerVars, callPc, headSubs, monPc, procPc, pendBackoff,
                   pendRetry, pendFresh, recPc, recBackoff, recRetry, stopCalled, pipeVars>>

\* case <-time.After(backoff): the backoff is doubled and capped, continue; then
\* the top of the next iteration: retryCount++ and the check of ctx.Done().
PendWake(c) ==
    /\ pendPc[c] = "sleep"
    /\ LET pc == AfterCtxCheck(ctxDone, "subscribe") IN
         /\ pendBackoff' = [pendBackoff EXCEPT
                               ![c] = Local(pc, NextBackoff(pendBackoff[c]), InitialBackoff)]
         /\ pendRetry' = [pendRetry EXCEPT ![c] = Local(pc, IncRetry(pendRetry[c]), 0)]
         /\ pendPc' = [pendPc EXCEPT ![c] = pc]
    /\ pendFresh' = [pendFresh EXCEPT ![c] = FALSE]
    /\ UNCHANGED <<ctxDone, listenerVars, callPc, headSubs, monPc, procPc,
                   recPc, recBackoff, recRetry, stopCalled, pipeVars>>

\* case <-ctx.Done() of the backoff select: return.
PendSleepCancel(c) ==
    /\ pendPc[c] = "sleep"
    /\ ctxDone
    /\ pendPc' = [pendPc EXCEPT ![c] = "done"]
    /\ pendBackoff' = [pendBackoff EXCEPT ![c] = InitialBackoff]
    /\ pendRetry' = [pendRetry EXCEPT ![c] = 0]
    /\ pendFresh' = [pendFresh EXCEPT ![c] = FALSE]
    /\ UNCHANGED <<ctxDone, listenerVars, callPc, headSubs, monPc, procPc,
                   recPc, recBackoff, recRetry, stopCalled, pipeVars>>

\* The inner function returns (deferred Unsubscribe); then the top of the next
\* iteration of the outer loop: retryCount++ and the check of ctx.Done().
PendServeEnd(c) ==
    /\ pendPc[c] = "serve"
    /\ LET pc == AfterCtxCheck(ctxDone, "subscribe") IN
         /\ pendRetry' = [pendRetry EXCEPT ![c] = Local(pc, IncRetry(pendRetry[c]), 0)]
         /\ pendFresh' = [pendFresh EXCEPT ![c] = Local(pc, pendFresh[c], FALSE)]
         /\ pendPc' = [pendPc EXCEPT ![c] = pc]
    /\ UNCHANGED <<ctxDone, listenerVars, callPc, headSubs, monPc, procPc, pendBackoff,
                   recPc, recBackoff, recRetry, stopCalled, pipeVars>>

\* case err := <-sub.Err() of the inner select.
PendServeErr(c) == PendServeEnd(c)

\* case <-ctx.Done() of the inner select.
PendServeCancel(c) == ctxDone /\ PendServeEnd(c)

(* ---- reconnect ---- *)

\* The first iteration: retryCount++ and the check of ctx.Done() at the top of the loop.
RecTop(c) ==
    /\ recPc[c] = "top"
    /\ LET pc == AfterCtxCheck(ctxDone, "dial") IN
         /\ recRetry' = [recRetry EXCEPT ![c] = Local(pc, IncRetry(recRetry[c]), 0)]
         /\ recPc' = [recPc EXCEPT ![c] = pc]
    /\ UNCHANGED <<ctxDone, listenerVars, callPc, headSubs, monPc, procPc, pendPc,
                   pendBackoff, pendRetry, pendFresh, recBackoff, stopCalled, pipeVars>>

\* NewListener succeeded: under l.mu the old client is closed, both handles are
\* replaced, isRunning = true; the backoff is reset and reconnect returns.
RecDialOk(c) ==
    /\ recPc[c] = "dial"
    /\ gen < MaxGen
    /\ clientCloses' = [clientCloses EXCEPT ![client] = @ + 1]
    /\ client' = gen + 1
    /\ rpcClient' = gen + 1
    /\ gen' = gen + 1
    /\ isRunning' = TRUE
    /\ recBackoff' = [recBackoff EXCEPT ![c] = ResetBackoff(recBackoff[c])]
    /\ recRetry' = [recRetry EXCEPT ![c] = 0]
    /\ recPc' = [recPc EXCEPT ![c] = "returned"]
    /\ UNCHANGED <<ctxDone, startTime, txCount, rpcCloses, callPc, headSubs, monPc,
                   procPc, pendPc, pendBackoff, pendRetry, pendFresh, stopCalled, pipeVars>>

\* NewListener failed: the loop enters select { ctx.Done(), time.After(backoff) }.
RecDialFail(c) ==
    /\ recPc[c] = "dial"
    /\ recPc' = [recPc EXCEPT ![c] = AfterFailure(recRetry[c])]
    /\ UNCHANGED <<ctxDone, listenerVars, callPc, headSubs, monPc, procPc, pendPc,
                   pendBackoff, pendRetry, pendFresh, recBackoff, recRetry, stopCalled, pipeVars>>

\* case <-time.After(backoff): the backoff is doubled and capped, continue; then
\* the top of the next iteration: retryCount++ and the check of ctx.Done().
RecWake(c) ==
    /\ recPc[c] = "sleep"
    /\ LET pc == AfterCtxCheck(ctxDone, "dial") IN
         /\ recBackoff' = [recBackoff EXCEPT
                              ![c] = Local(pc, NextBackoff(recBackoff[c]), InitialBackoff)]
         /\ recRetry' = [recRetry EXCEPT ![c] = Local(pc, IncRetry(recRetry[c]), 0)]
         /\ recPc' = [recPc EXCEPT ![c] = pc]
    /\ UNCHANGED <<ctxDone, listenerVars, callPc, headSubs, monPc, procPc, pendPc,
                   pendBackoff, pendRetry, pendFresh, stopCalled, pipeVars>>

\* case <-ctx.Done() of the backoff select: return.
RecSleepCancel(c) ==
    /\ recPc[c] = "sleep"
    /\ ctxDone
    /\ recPc' = [recPc EXCEPT ![c] = "done"]
    /\ recBackoff' = [recBackoff EXCEPT ![c] = InitialBackoff]
    /\ recRetry' = [recRetry EXCEPT ![c] = 0]
    /\ UNCHANGED <<ctxDone, listenerVars, callPc, headSubs, monPc, procPc, pendPc,
                   pendBackoff, pendRetry, pendFresh, stopCalled, pipeVars>>

(* ---- Stop ---- *)

\* The Listener fields Stop reads and writes.
ListenerState == [isRunning |-> isRunning, client |-> client, rpcClient |-> rpcClient,
                  clientCloses |-> clientCloses, rpcCloses |-> rpcCloses]

\* Faulty variant: Stop closes the handles without looking at the running flag.
StopUnguarded(L) ==
    [L EXCEPT !.isRunning = FALSE,
              !.clientCloses[L.client] = @ + 1,
              !.rpcCloses[L.rpcClient] = @ + 1]

\* Stop, wholly under l.mu: only a running Listener is marked stopped and has its
\* two handles closed.
StopEffect(L) ==
    IF L.isRunning
       THEN [L EXCEPT !.isRunning = FALSE,
                      !.clientCloses[L.client] = @ + 1,
                      !.rpcCloses[L.rpcClient] = @ + 1]
       ELSE L

Stop ==
    /\ LET S == StopEffect(ListenerState) IN
         /\ isRunning' = S.isRunning
         /\ client' = S.client
         /\ rpcClient' = S.rpcClient
         /\ clientCloses' = S.clientCloses
         /\ rpcCloses' = S.rpcCloses
    /\ stopCalled' = TRUE
    /\ UNCHANGED <<ctxDone, startTime, txCount, gen, callPc, goVars, pipeVars>>

(* ---- Fetch & Normalize: fetchAndProcessTransaction ---- *)

\* case txHashStr := <-pendingTxChan (a non-empty string, the context not cancelled):
\* go l.fetchAndProcessTransaction(ctx, txHash, txChan).  The identifiers are
\* handed to the tasks in the order of their numbers.
PendReceive(c, t) ==
    /\ pendPc[c] = "serve"
    /\ ~ctxDone
    /\ fetchPc[t] = "idle"
    /\ \A u \in Tasks : u < t => fetchPc[u] # "idle"
    /\ fetchPc' = [fetchPc EXCEPT ![t] = "start"]
    /\ UNCHANGED <<ctxDone, listenerVars, callPc, goVars, stopCalled, fetchTry, fetchDelay,
                   fetchTx, txChan, decPc, decTx, processed, filtered, decoded, lastDecode, lastFilter,
                   decodedTxChan, simClient, simDials, simPc, resPc, estVars>>

\* What a fetch task leaves its variables untouched of.
fetchRest == <<ctxDone, isRunning, startTime, client, rpcClient, clientCloses, rpcCloses, gen,
               callPc, goVars, stopCalled, decPc, decTx, processed, filtered, decoded,
               lastDecode, lastFilter, decodedTxChan, simClient, simDials, simPc, resPc, estVars>>

\* Faulty variant: a fourth attempt is allowed.
LoopContinuesOnceMore(i) == i < MaxAttempts + 1

\* for i := 0; i < 3; i++
LoopContinues(i) == i < MaxAttempts

\* time.Duration(i+1) * 100 * time.Millisecond
RetryDelay(i) == (i + 1) * RetryUnitMs

\* The states in which a fetch task has returned.
FetchEnded == {"sent", "dropped", "confirmed", "gave_up", "cancelled"}

\* The two checks of ctx.Done() before the first lookup (function entry, loop i = 0).
FetchStart(t) ==
    /\ fetchPc[t] = "start"
    /\ fetchPc' = [fetchPc EXCEPT ![t] = IF ctxDone THEN "cancelled" ELSE "lookup"]
    /\ UNCHANGED <<fetchRest, txCount, fetchTry, fetchDelay, fetchTx, txChan>>

\* l.client.TransactionByHash returned an error: the task enters
\* select { ctx.Done(), time.After((i+1) * 100 ms) }.
FetchLookupErr(t) ==
    /\ fetchPc[t] = "lookup"
    /\ fetchPc' = [fetchPc EXCEPT ![t] = "sleep"]
    /\ fetchDelay' = [fetchDelay EXCEPT ![t] = RetryDelay(fetchTry[t])]
    /\ UNCHANGED <<fetchRest, txCount, fetchTry, fetchTx, txChan>>

\* case <-time.After(...): continue; i++; the loop condition; the check of ctx.Done()
\* of the next iteration, or the end of the loop ("cannot get the transaction").
FetchWake(t) ==
    /\ fetchPc[t] = "sleep"
    /\ LET i == fetchTry[t] + 1
           pc == IF LoopContinues(i) THEN (IF ctxDone THEN "cancelled" ELSE "lookup")
                                     ELSE "gave_up" IN
         /\ fetchPc' = [fetchPc EXCEPT ![t] = pc]
         /\ fetchTry' = [fetchTry EXCEPT ![t] = IF pc = "lookup" THEN i ELSE 0]
    /\ fetchDelay' = [fetchDelay EXCEPT ![t] = 0]
    /\ UNCHANGED <<fetchRest, txCount, fetchTx, txChan>>

\* case <-ctx.Done() of the retry wait: return.
FetchSleepCancel(t) ==
    /\ fetchPc[t] = "sleep"
    /\ ctxDone
    /\ fetchPc' = [fetchPc EXCEPT ![t] = "cancelled"]
    /\ fetchTry' = [fetchTry EXCEPT ![t] = 0]
    /\ fetchDelay' = [fetchDelay EXCEPT ![t] = 0]
    /\ UNCHANGED <<fetchRest, txCount, fetchTx, txChan>>

\* The lookup returned a transaction with isPending false: return.
FetchLookupConfirmed(t) ==
    /\ fetchPc[t] = "lookup"
    /\ ClientOpen
    /\ ~ctxDone
    /\ fetchPc' = [fetchPc EXCEPT ![t] = "confirmed"]
    /\ fetchTry' = [fetchTry EXCEPT ![t] = 0]
    /\ UNCHANGED <<fetchRest, txCount, fetchDelay, fetchTx, txChan>>

\* The lookup returned a pending transaction: the record is built.
FetchLookupPending(t, tx) ==
    /\ fetchPc[t] = "lookup"
    /\ ClientOpen
    /\ ~ctxDone
    /\ fetchPc' = [fetchPc EXCEPT ![t] = "send"]
    /\ fetchTx' = [fetchTx EXCEPT ![t] = tx]
    /\ fetchTry' = [fetchTry EXCEPT ![t] = 0]
    /\ UNCHANGED <<fetchRest, txCount, fetchDelay, txChan>>

\* select { case txChan <- transaction: ... }: the channel has room.
FetchSendOk(t) ==
    /\ fetchPc[t] = "send"
    /\ Len(txChan) < TxChanCap
    /\ txChan' = Append(txChan, fetchTx[t])
    /\ fetchPc' = [fetchPc EXCEPT ![t] = "count"]
    /\ fetchTx' = [fetchTx EXCEPT ![t] = NoTx]
    /\ UNCHANGED <<fetchRest, txCount, fetchTry, fetchDelay>>

\* select { ... case <-ctx.Done(): return }.
FetchSendCancel(t) ==
    /\ fetchPc[t] = "send"
    /\ ctxDone
    /\ fetchPc' = [fetchPc EXCEPT ![t] = "cancelled"]
    /\ fetchTx' = [fetchTx EXCEPT ![t] = NoTx]
    /\ UNCHANGED <<fetchRest, txCount, fetchTry, fetchDelay, txChan>>

\* Faulty variant: the record that found the channel full is counted all the same.
FetchSendDropCounted(t) ==
    /\ fetchPc[t] = "send"
    /\ Len(txChan) >= TxChanCap
    /\ ~ctxDone
    /\ fetchPc' = [fetchPc EXCEPT ![t] = "count"]
    /\ fetchTx' = [fetchTx EXCEPT ![t] = NoTx]
    /\ UNCHANGED <<fetchRest, txCount, fetchTry, fetchDelay, txChan>>

\* select { ... default: "channel full, transaction dropped"; return }: taken only
\* when no other case is ready.
FetchSendDrop(t) ==
    /\ fetchPc[t] = "send"
    /\ Len(txChan) >= TxChanCap
    /\ ~ctxDone
    /\ fetchPc' = [fetchPc EXCEPT ![t] = "dropped"]
    /\ fetchTx' = [fetchTx EXCEPT ![t] = NoTx]
    /\ UNCHANGED <<fetchRest, txCount, fetchTry, fetchDelay, txChan>>

\* After the send: l.txCount++ under l.mu, the log line, return.
FetchCount(t) ==
    /\ fetchPc[t] = "count"
    /\ txCount' = txCount + 1
    /\ fetchPc' = [fetchPc EXCEPT ![t] = "sent"]
    /\ UNCHANGED <<fetchRest, fetchTry, fetchDelay, fetchTx, txChan>>

(* ---- Filter/Decode: the Decoder ---- *)

\* A nil *big.Int.
NilAmount == -1

IsSupportedContract(address) == address \in SupportedDEX

IsSwapMethod(methodID) ==
    \E name \in DOMAIN SupportedSwapMethods :
        /\ Len(methodID) >= SelectorLen
        /\ Len(SupportedSwapMethods[name]) >= SelectorLen
        /\ Take(methodID, SelectorLen) = Take(SupportedSwapMethods[name], SelectorLen)

GetMethodName(methodID) ==
    LET hits == {name \in DOMAIN SupportedSwapMethods :
                    /\ Len(methodID) >= SelectorLen
                    /\ Len(SupportedSwapMethods[name]) >= SelectorLen
                    /\ Take(methodID, SelectorLen) = Take(SupportedSwapMethods[name], SelectorLen)}
    IN  IF hits = {} THEN "unknown" ELSE CHOOSE name \in hits : TRUE

\* tx.Data[:4]
MethodIDOf(tx) == Take(tx.Data.head, SelectorLen)

\* Faulty variant: the check of the recipient is missing.
FilterOrderNoRecipient == <<"registry", "length", "selector">>

\* Faulty variant: the payload length is checked before the registry of routers.
FilterOrderLengthFirst == <<"recipient", "length", "registry", "selector">>

\* The four checks of decodeTransaction, in the order of the code.
FilterOrder == <<"recipient", "registry", "length", "selector">>

CheckPasses(check, tx) ==
    CASE check = "recipient" -> tx.To # NilAddress
      [] check = "registry" -> IsSupportedContract(tx.To)
      [] check = "length" -> tx.Data.len >= SelectorLen
      [] check = "selector" -> IsSwapMethod(MethodIDOf(tx))

\* The first check that fails, each evaluated only if those before it passed;
\* "decoded" if none fails.
RECURSIVE ReturnSite(_, _)
ReturnSite(tx, checks) ==
    IF checks = <<>> THEN "decoded"
    ELSE IF ~CheckPasses(Head(checks), tx) THEN Head(checks)
    ELSE ReturnSite(tx, Tail(checks))

\* Faulty variant: the directions of the two native-currency methods exchanged.
SwapDirectionExchanged(method) ==
    CASE method = "swapExactETHForTokens" -> "sell"
      [] method = "swapExactTokensForETH" -> "buy"
      [] method = "swapExactTokensForTokens" -> "swap"
      [] OTHER -> ""

\* switch decodedTx.Method: the swap direction ("" where no case matches).
SwapDirection(method) ==
    CASE method = "swapExactETHForTokens" -> "buy"
      [] method = "swapExactTokensForETH" -> "sell"
      [] method = "swapExactTokensForTokens" -> "swap"
      [] OTHER -> ""

\* Faulty variant: the amount is set whatever the payload length.
ArgsPresentAlways(method, length) == TRUE

\* parseTransactionParameters: the length the payload must have for AmountIn to be set.
ArgsPresent(method, length) ==
    CASE method = "swapExactETHForTokens" -> length >= ArgsETHForTokens
      [] method = "swapExactTokensForETH" -> length >= ArgsTokensFor
      [] method = "swapExactTokensForTokens" -> length >= ArgsTokensFor
      [] OTHER -> FALSE

\* Faulty variant: the method name is not looked up.
MethodNameUnknown(methodID) == "unknown"

\* Method: GetMethodName(methodID)
MethodNameOf(methodID) == GetMethodName(methodID)

\* The DecodedTransaction decodeTransaction builds for a record that passed the
\* four checks.  TokenIn and TokenOut are common.Address values: the zero address
\* both where the code assigns it and where it assigns nothing.
BuildDecoded(tx) ==
    LET method == MethodNameOf(MethodIDOf(tx)) IN
    [Transaction |-> tx,
     Method |-> method,
     MethodID |-> MethodIDOf(tx),
     TargetContract |-> tx.To,
     IsSwap |-> TRUE,
     SwapDirection |-> SwapDirection(method),
     TokenIn |-> ZeroAddress,
     TokenOut |-> ZeroAddress,
     AmountIn |-> IF ArgsPresent(method, tx.Data.len) THEN tx.Value ELSE NilAmount]

\* decodeTransaction: the return site, the value returned and the counter incremented.
DecodeResult(tx) ==
    LET site == ReturnSite(tx, FilterOrder) IN
    [site |-> site,
     out |-> IF site = "decoded" THEN BuildDecoded(tx) ELSE NilDecoded,
     filtered |-> IF site = "decoded" THEN 0 ELSE 1,
     decoded |-> IF site = "decoded" THEN 1 ELSE 0]

\* Faulty variant: the registry of routers is not consulted.
FilterResultNoRegistry(tx) ==
    IF tx.To = NilAddress THEN FALSE
    ELSE IF tx.Data.len < SelectorLen THEN FALSE
    ELSE IsSwapMethod(MethodIDOf(tx))

\* FilterTransaction: false for a nil recipient, for a recipient that is not a
\* supported contract, for a payload shorter than the selector; otherwise
\* IsSwapMethod(tx.Data[:4]).
FilterResult(tx) ==
    IF tx.To = NilAddress THEN FALSE
    ELSE IF ~IsSupportedContract(tx.To) THEN FALSE
    ELSE IF tx.Data.len < SelectorLen THEN FALSE
    ELSE IsSwapMethod(MethodIDOf(tx))

\* What the Decoder leaves untouched.
decoderRest == <<ctxDone, listenerVars, callPc, goVars, stopCalled, fetchPc, fetchTry,
                 fetchDelay, fetchTx, simClient, simDials, simPc, resPc, estVars>>

\* go decoder.StartWorkerPool(ctx, txChan, n): every worker is launched.
DecoderStartWorkerPool ==
    /\ \A w \in DecWorkers : decPc[w] = "idle"
    /\ decPc' = [w \in DecWorkers |-> "recv"]
    /\ UNCHANGED <<decoderRest, decTx, txChan, processed, filtered, decoded, lastDecode, lastFilter,
                   decodedTxChan>>

\* case tx := <-txChan: d.processed++ under d.mu.
DecWorkerReceive(w) ==
    /\ decPc[w] = "recv"
    /\ txChan # <<>>
    /\ decTx' = [decTx EXCEPT ![w] = Head(txChan)]
    /\ txChan' = Tail(txChan)
    /\ processed' = processed + 1
    /\ decPc' = [decPc EXCEPT ![w] = "decode"]
    /\ UNCHANGED <<decoderRest, filtered, decoded, lastDecode, lastFilter, decodedTxChan>>

\* decodedTx := d.decodeTransaction(tx); a decoded event is logged, nothing else
\* is done with it; back to the select.
DecWorkerDecode(w) ==
    /\ decPc[w] = "decode"
    /\ LET r == DecodeResult(decTx[w]) IN
         /\ filtered' = filtered + r.filtered
         /\ decoded' = decoded + r.decoded
    /\ decTx' = [decTx EXCEPT ![w] = NoTx]
    /\ decPc' = [decPc EXCEPT ![w] = "recv"]
    /\ UNCHANGED <<decoderRest, txChan, processed, lastDecode, lastFilter, decodedTxChan>>

\* Faulty variant: the worker does not return on ctx.Done(), it goes round the loop.
DecWorkerCancelIgnored(w) ==
    /\ decPc[w] = "recv"
    /\ ctxDone
    /\ UNCHANGED vars

\* case <-ctx.Done(): return.
DecWorkerCancel(w) ==
    /\ decPc[w] = "recv"
    /\ ctxDone
    /\ decPc' = [decPc EXCEPT ![w] = "done"]
    /\ UNCHANGED <<decoderRest, decTx, txChan, processed, filtered, decoded, lastDecode, lastFilter,
                   decodedTxChan>>

\* The exported DecodeTransaction(tx), called by the owner of the Decoder.
DecodeTransaction(tx) ==
    /\ filtered + decoded < MaxCalls
    /\ LET r == DecodeResult(tx) IN
         /\ filtered' = filtered + r.filtered
         /\ decoded' = decoded + r.decoded
         /\ lastDecode' = [tx |-> tx, out |-> r.out, site |-> r.site]
    /\ UNCHANGED <<decoderRest, decPc, decTx, txChan, processed, lastFilter, decodedTxChan>>

\* The exported FilterTransaction(tx), called by the owner of the Decoder: no
\* field of the Decoder is written.
FilterTransaction(tx) ==
    /\ lastFilter' = [tx |-> tx, ok |-> FilterResult(tx)]
    /\ UNCHANGED <<decoderRest, decPc, decTx, txChan, processed, filtered, decoded,
                   lastDecode, decodedTxChan>>

(* ---- Estimation: the Simulator workers; the result processor ---- *)

\* What the Simulator and the result processor leave untouched.
simBase == <<ctxDone, listenerVars, callPc, goVars, stopCalled, fetchPc, fetchTry, fetchDelay,
             fetchTx, txChan, decPc, decTx, processed, filtered, decoded, lastDecode, lastFilter>>

\* What the start and the end of a worker leave untouched as well.
simRest == <<simBase, decodedTxChan, estVars>>

\* NewSimulator: ethclient.Dial succeeded.
NewSimulatorOk ==
    /\ simClient = "unset"
    /\ simClient' = "open"
    /\ simDials' = simDials + 1
    /\ UNCHANGED <<simRest, simPc, resPc>>

\* NewSimulator: ethclient.Dial failed; the Simulator is returned without a client.
NewSimulatorDialFail ==
    /\ simClient = "unset"
    /\ simClient' = "nil"
    /\ UNCHANGED <<simRest, simDials, simPc, resPc>>

\* worker: s.client != nil, the select loop starts.
SimWorkerReady(w) ==
    /\ simPc[w] = "start"
    /\ simClient = "open"
    /\ simPc' = [simPc EXCEPT ![w] = "recv"]
    /\ UNCHANGED <<simRest, simClient, simDials, resPc>>

\* worker: if s.client == nil, read without s.mu: the worker calls s.reconnect().
SimWorkerClientNil(w) ==
    /\ simPc[w] = "start"
    /\ simClient = "nil"
    /\ simPc' = [simPc EXCEPT ![w] = "dial"]
    /\ UNCHANGED <<simRest, simClient, simDials, resPc>>

\* s.reconnect(): ethclient.Dial succeeded; s.client = client under s.mu, whatever
\* s.client holds by now.
SimWorkerReconnectOk(w) ==
    /\ simPc[w] = "dial"
    /\ simClient' = "open"
    /\ simDials' = simDials + 1
    /\ simPc' = [simPc EXCEPT ![w] = "recv"]
    /\ UNCHANGED <<simRest, resPc>>

\* s.reconnect(): ethclient.Dial failed: the worker returns.
SimWorkerReconnectFail(w) ==
    /\ simPc[w] = "dial"
    /\ simPc' = [simPc EXCEPT ![w] = "done"]
    /\ UNCHANGED <<simRest, simClient, simDials, resPc>>

\* case <-ctx.Done(): return.
SimWorkerCancel(w) ==
    /\ simPc[w] = "recv"
    /\ ctxDone
    /\ simPc' = [simPc EXCEPT ![w] = "done"]
    /\ UNCHANGED <<simRest, simClient, simDials, resPc>>

\* processResults: case <-ctx.Done(): return.
ResultsCancel ==
    /\ resPc = "run"
    /\ ctxDone
    /\ resPc' = "done"
    /\ UNCHANGED <<simRest, simClient, simDials, simPc>>

\* go simulator.StartWorkerPool(ctx, decodedTxChan, profitChan, workerCount) with
\* workerCount = PoolSize: every worker is launched.
SimStartWorkerPool ==
    /\ simClient # "unset"
    /\ \A w \in SimWorkers : simPc[w] = "idle"
    /\ simPc' = [w \in SimWorkers |-> "start"]
    /\ UNCHANGED <<simRest, simClient, simDials, resPc>>

\* go processResults(ctx, profitChan)
ResultsStart ==
    /\ resPc = "idle"
    /\ resPc' = "run"
    /\ UNCHANGED <<simRest, simClient, simDials, simPc>>

\* The owner of decodedTxChan sends an event (a blocking send: the channel has room).
\* The hash of the event is its number in the order of sending.
Feed(value, gasPrice) ==
    /\ fed < MaxFeed
    /\ Len(decodedTxChan) < DecodedChanCap
    /\ fed' = fed + 1
    /\ decodedTxChan' = Append(decodedTxChan, Event(fed + 1, value, gasPrice))
    /\ UNCHANGED <<simBase, simClient, simDials, simPc, resPc, profitChan, simEv, simOut, simulated,
                   profitable, failed, lastEstimate, lastRisk, simLog>>

\* The owner of decodedTxChan sends nil.
FeedNil ==
    /\ fed < MaxFeed
    /\ Len(decodedTxChan) < DecodedChanCap
    /\ fed' = fed + 1
    /\ decodedTxChan' = Append(decodedTxChan, NilEvent)
    /\ UNCHANGED <<simBase, simClient, simDials, simPc, resPc, profitChan, simEv, simOut, simulated,
                   profitable, failed, lastEstimate, lastRisk, simLog>>

\* case decodedTx := <-decodedTxChan: a nil event is skipped (continue).
SimWorkerReceive(w) ==
    /\ simPc[w] = "recv"
    /\ decodedTxChan # <<>>
    /\ decodedTxChan' = Tail(decodedTxChan)
    /\ LET ev == Head(decodedTxChan) IN
         IF ev = NilEvent
            THEN UNCHANGED <<simPc, simEv, simLog>>
            ELSE /\ simEv' = [simEv EXCEPT ![w] = ev]
                 /\ simPc' = [simPc EXCEPT ![w] = "simulate"]
                 /\ simLog' = [simLog EXCEPT !.recv[ev.Hash] = @ + 1]
    /\ UNCHANGED <<simBase, simClient, simDials, resPc, profitChan, simOut, simulated, profitable,
                   failed, lastEstimate, lastRisk, fed>>

\* SimulateTransaction, first part: s.simulated++ under s.mu; if s.client == nil,
\* s.reconnect(); if that fails, s.failed++ under s.mu and nil is returned, on
\* which the worker goes back to its select.
SimWorkerSimulate(w, dialOk) ==
    /\ simPc[w] = "simulate"
    /\ simulated' = simulated + 1
    /\ IF simClient = "open" \/ dialOk
          THEN /\ simClient' = "open"
               /\ simDials' = IF simClient = "open" THEN simDials ELSE simDials + 1
               /\ simPc' = [simPc EXCEPT ![w] = "score"]
               /\ UNCHANGED <<failed, simEv>>
          ELSE /\ failed' = failed + 1
               /\ simEv' = [simEv EXCEPT ![w] = NoEvent]
               /\ simPc' = [simPc EXCEPT ![w] = "recv"]
               /\ UNCHANGED <<simClient, simDials>>
    /\ UNCHANGED <<simBase, decodedTxChan, resPc, profitChan, simOut, profitable,
                   lastEstimate, lastRisk, fed, simLog>>

\* SimulateTransaction, second part: the analysis is built, s.profitable++ under
\* s.mu if its NetProfit is positive, and it is returned to the worker.
SimWorkerScore(w) ==
    /\ simPc[w] = "score"
    /\ LET analysis == BuildAnalysis(simEv[w]) IN
         /\ profitable' = profitable + ProfitableIncrement(analysis)
         /\ simOut' = [simOut EXCEPT ![w] = analysis]
    /\ simPc' = [simPc EXCEPT ![w] = "send"]
    /\ UNCHANGED <<simBase, decodedTxChan, simClient, simDials, resPc, profitChan, simEv, simulated,
                   failed, lastEstimate, lastRisk, fed, simLog>>

\* Faulty variant: after the send the worker is at the same select again, with
\* the same analysis.
SimWorkerSendOkResends(w) ==
    /\ simPc[w] = "send"
    /\ Len(profitChan) < ProfitChanCap
    /\ profitChan' = Append(profitChan, simOut[w])
    /\ simLog' = [simLog EXCEPT !.sent[simOut[w].TxHash] = @ + 1]
    /\ UNCHANGED <<simBase, decodedTxChan, simClient, simDials, simPc, resPc, simEv, simOut, simulated,
                   profitable, failed, lastEstimate, lastRisk, fed>>

\* select { case profitChan <- profitAnalysis: the log line }, back to the outer select.
SimWorkerSendOk(w) ==
    /\ simPc[w] = "send"
    /\ Len(profitChan) < ProfitChanCap
    /\ profitChan' = Append(profitChan, simOut[w])
    /\ simLog' = [simLog EXCEPT !.sent[simOut[w].TxHash] = @ + 1]
    /\ simOut' = [simOut EXCEPT ![w] = NilAnalysis]
    /\ simEv' = [simEv EXCEPT ![w] = NoEvent]
    /\ simPc' = [simPc EXCEPT ![w] = "recv"]
    /\ UNCHANGED <<simBase, decodedTxChan, simClient, simDials, resPc, simulated, profitable, failed,
                   lastEstimate, lastRisk, fed>>

\* select { case <-ctx.Done(): return }
SimWorkerSendCancel(w) ==
    /\ simPc[w] = "send"
    /\ ctxDone
    /\ simOut' = [simOut EXCEPT ![w] = NilAnalysis]
    /\ simEv' = [simEv EXCEPT ![w] = NoEvent]
    /\ simPc' = [simPc EXCEPT ![w] = "done"]
    /\ UNCHANGED <<simBase, decodedTxChan, simClient, simDials, resPc, profitChan, simulated,
                   profitable, failed, lastEstimate, lastRisk, fed, simLog>>

\* Faulty variant: no default case, the worker waits for room in the channel.
SimWorkerSendDropWaits(w) ==
    /\ simPc[w] = "send"
    /\ FALSE
    /\ UNCHANGED vars

\* select { default: "profit channel full, result dropped" }: taken only when no
\* other case is ready; back to the outer select.  No counter is touched.
SimWorkerSendDrop(w) ==
    /\ simPc[w] = "send"
    /\ Len(profitChan) >= ProfitChanCap
    /\ ~ctxDone
    /\ simLog' = [simLog EXCEPT !.dropped[simOut[w].TxHash] = @ + 1]
    /\ simOut' = [simOut EXCEPT ![w] = NilAnalysis]
    /\ simEv' = [simEv EXCEPT ![w] = NoEvent]
    /\ simPc' = [simPc EXCEPT ![w] = "recv"]
    /\ UNCHANGED <<simBase, decodedTxChan, simClient, simDials, resPc, profitChan, simulated,
                   profitable, failed, lastEstimate, lastRisk, fed>>

\* What the result processor does with an analysis it has received: with Config
\* nil, analysis.Config.MinProfit is a nil pointer dereference, a panic that no
\* one recovers; otherwise the opportunity is logged when Profit >= MinProfit.
ResultsOutcome(analysis) ==
    IF analysis = NilAnalysis THEN "run"
    ELSE IF analysis.Config = NilConfig THEN "panic"
    ELSE "run"

\* processResults: case analysis := <-profitChan
ResultsReceive ==
    /\ resPc = "run"
    /\ profitChan # <<>>
    /\ profitChan' = Tail(profitChan)
    /\ resPc' = ResultsOutcome(Head(profitChan))
    /\ UNCHANGED <<simBase, decodedTxChan, simClient, simDials, simPc, simEv, simOut, simulated,
                   profitable, failed, lastEstimate, lastRisk, fed, simLog>>

\* The exported SimulateTransaction(ctx, decodedTx), called by the owner of the
\* Simulator: s.simulated++; without a client, s.reconnect(), and on its failure
\* s.failed++ and nil; otherwise the analysis, and s.profitable++ if its
\* NetProfit is positive.
SimulateTransaction(ev, dialOk) ==
    /\ simClient # "unset"
    /\ simulated < MaxCalls
    /\ simulated' = simulated + 1
    /\ simLog' = [simLog EXCEPT !.calls = @ + 1]
    /\ IF simClient = "open" \/ dialOk
          THEN LET analysis == BuildAnalysis(ev) IN
                 /\ simClient' = "open"
                 /\ simDials' = IF simClient = "open" THEN simDials ELSE simDials + 1
                 /\ profitable' = profitable + ProfitableIncrement(analysis)
                 /\ lastEstimate' = [in |-> ev, out |-> analysis]
                 /\ UNCHANGED failed
          ELSE /\ failed' = failed + 1
               /\ lastEstimate' = [in |-> ev, out |-> NilAnalysis]
               /\ UNCHANGED <<simClient, simDials, profitable>>
    /\ UNCHANGED <<simBase, decodedTxChan, simPc, resPc, profitChan, simEv, simOut,
                   lastRisk, fed>>

\* assessRiskLevel(decodedTx, successRate) on its own.
AssessRiskLevel(successRate) ==
    /\ lastRisk' = [rate |-> successRate, level |-> assessRiskLevel(successRate)]
    /\ UNCHANGED <<simBase, decodedTxChan, simClient, simDials, simPc, resPc, profitChan, simEv,
                   simOut, simulated, profitable, failed, lastEstimate, fed, simLog>>

(* ---- main ---- *)

\* main after NewSimulator: go decoder.StartWorkerPool(ctx, txChan, 5),
\* go simulator.StartWorkerPool(...), go processResults(ctx, profitChan).  A
\* goroutine that exists and has not run yet is at its first blocking point.
MainLaunchPools ==
    /\ simClient # "unset"
    /\ \A w \in DecWorkers : decPc[w] = "idle"
    /\ \A w \in SimWorkers : simPc[w] = "idle"
    /\ resPc = "idle"
    /\ decPc' = [w \in DecWorkers |-> "recv"]
    /\ simPc' = [w \in SimWorkers |-> IF w <= NumSimulators THEN "start" ELSE "idle"]
    /\ resPc' = "run"
    /\ UNCHANGED <<ctxDone, listenerVars, callPc, goVars, stopCalled, fetchPc, fetchTry,
                   fetchDelay, fetchTx, txChan, decTx, processed, filtered, decoded,
                   lastDecode, lastFilter, decodedTxChan, simClient, simDials, estVars>>

(* ---- the specifications ---- *)

\* The steps of the goroutines the Listener has launched.
GoStep(c) ==
    \/ MonitorCancel(c)
    \/ ProcessHeadsCancel(c)
    \/ PendTop(c)
    \/ PendWake(c)
    \/ PendSleepCancel(c)
    \/ PendServeCancel(c)
    \/ RecTop(c)
    \/ RecWake(c)
    \/ RecSleepCancel(c)

\* The answers of the upstream node to the calls in flight, and its subscription errors.
UpstreamStep(c) ==
    \/ StartSubscribeOk(c)
    \/ StartSubscribeFail(c)
    \/ MonitorHeadErr(c)
    \/ PendSubscribeOk(c)
    \/ PendSubscribeFail(c)
    \/ PendServeErr(c)
    \/ RecDialOk(c)
    \/ RecDialFail(c)

\* The Listener as main runs it: the one call go listener.Start(ctx, txChan), the
\* cancellation of ctx by the signal handler, and Stop called by the owner.
Next ==
    \/ Cancel
    \/ Stop
    \/ StartBegin(MainCall)
    \/ GoStep(MainCall)
    \/ UpstreamStep(MainCall)

Spec == Init /\ [][Next]_vars

\* Scheduling: every runnable goroutine of the Listener runs, every timer fires,
\* every call to the upstream returns.
Scheduling ==
    /\ WF_vars(MonitorCancel(MainCall))
    /\ WF_vars(ProcessHeadsCancel(MainCall))
    /\ WF_vars(PendTop(MainCall) \/ PendWake(MainCall) \/ PendSleepCancel(MainCall)
               \/ PendServeCancel(MainCall))
    /\ WF_vars(RecTop(MainCall) \/ RecWake(MainCall) \/ RecSleepCancel(MainCall))
    /\ WF_vars(StartSubscribeOk(MainCall) \/ StartSubscribeFail(MainCall))
    /\ WF_vars(PendSubscribeOk(MainCall) \/ PendSubscribeFail(MainCall))
    /\ WF_vars(RecDialOk(MainCall) \/ RecDialFail(MainCall))

\* Scheduling, and an upstream that is asked again and again eventually accepts.
Fairness ==
    /\ Scheduling
    /\ SF_vars(StartSubscribeOk(MainCall))
    /\ SF_vars(PendSubscribeOk(MainCall))
    /\ SF_vars(RecDialOk(MainCall))

FairSpec == Spec /\ Fairness

\* The Listener used through its exported methods: Start called by every caller.
NextAPI ==
    \/ Cancel
    \/ Stop
    \/ \E c \in Callers : StartBegin(c)
    \/ \E c \in Callers : GoStep(c)
    \/ \E c \in Callers : UpstreamStep(c)

SpecAPI == Init /\ [][NextAPI]_vars

\* The steps of a fetch task.
FetchStep(t) ==
    \/ FetchStart(t)
    \/ FetchWake(t)
    \/ FetchSleepCancel(t)
    \/ FetchSendOk(t)
    \/ FetchSendCancel(t)
    \/ FetchSendDrop(t)
    \/ FetchCount(t)

\* The answers of the upstream node to the lookup of a fetch task.
LookupStep(t) ==
    \/ FetchLookupErr(t)
    \/ FetchLookupConfirmed(t)
    \/ \E tx \in FeedTxs : FetchLookupPending(t, tx)

\* The steps of a Decoder worker.
DecWorkerStep(w) ==
    \/ DecWorkerReceive(w)
    \/ DecWorkerDecode(w)
    \/ DecWorkerCancel(w)

\* The steps of a Simulator worker.
SimWorkerStep(w) ==
    \/ SimWorkerReady(w)
    \/ SimWorkerClientNil(w)
    \/ SimWorkerReconnectOk(w)
    \/ SimWorkerReconnectFail(w)
    \/ SimWorkerCancel(w)

\* The pipeline as main wires it, the upstream accepting every subscription: the
\* Listener subscribes, identifiers arrive, the fetch tasks feed txChan, the
\* Decoder workers drain it.
NextPipe ==
    \/ Cancel
    \/ StartBegin(MainCall)
    \/ StartSubscribeOk(MainCall)
    \/ PendTop(MainCall)
    \/ PendSubscribeOk(MainCall)
    \/ PendServeCancel(MainCall)
    \/ MonitorCancel(MainCall)
    \/ ProcessHeadsCancel(MainCall)
    \/ \E t \in Tasks : PendReceive(MainCall, t)
    \/ \E t \in Tasks : FetchStep(t)
    \/ \E t \in Tasks : LookupStep(t)
    \/ DecoderStartWorkerPool
    \/ \E w \in DecWorkers : DecWorkerStep(w)

SpecPipe == Init /\ [][NextPipe]_vars

\* Scheduling of the fetch tasks: a task that can run runs, its timer fires, its
\* lookup returns.
PipeScheduling ==
    \A t \in Tasks : WF_vars(FetchStep(t)) /\ WF_vars(LookupStep(t))

FairPipe == SpecPipe /\ PipeScheduling

\* The Decoder used through its exported method, on every record of Transactions.
NextDecode == \E tx \in Transactions : DecodeTransaction(tx)

SpecDecode == Init /\ [][NextDecode]_vars

\* The Decoder used through both exported methods: DecodeTransaction on every
\* record of Transactions, FilterTransaction on the record last decoded.
NextFilter ==
    \/ \E tx \in Transactions : DecodeTransaction(tx)
    \/ \E tx \in Transactions : lastDecode.tx = tx /\ FilterTransaction(tx)

SpecFilter == Init /\ [][NextFilter]_vars

\* The first identifier the pending subscription delivers.
FirstTask == 1

\* The upstream refuses the pending subscription: while the context is alive, at
\* most MaxRefusals times in a row.
MainPendSubscribeFail ==
    /\ ctxDone \/ pendRetry[MainCall] <= MaxRefusals
    /\ PendSubscribeFail(MainCall)

\* The upstream refuses the dial of reconnect: while the context is alive and it
\* has a dial left to grant, at most MaxRefusals times in a row.
MainRecDialFail ==
    /\ ctxDone \/ gen >= MaxGen \/ recRetry[MainCall] <= MaxRefusals
    /\ RecDialFail(MainCall)

\* The steps of the one fetch task of the run of main: its record is the only one
\* ever sent, so it never finds the channel full.
MainFetchStep ==
    \/ FetchStart(FirstTask)
    \/ FetchWake(FirstTask)
    \/ FetchSleepCancel(FirstTask)
    \/ FetchSendOk(FirstTask)
    \/ FetchSendCancel(FirstTask)
    \/ FetchCount(FirstTask)

\* The whole of main up to its shutdown: every goroutine it starts, the upstream
\* failing or accepting, one identifier delivered.
NextMain ==
    \/ Cancel
    \/ StartBegin(MainCall)
    \/ GoStep(MainCall)
    \/ StartSubscribeOk(MainCall)
    \/ StartSubscribeFail(MainCall)
    \/ MonitorHeadErr(MainCall)
    \/ PendSubscribeOk(MainCall)
    \/ MainPendSubscribeFail
    \/ PendServeErr(MainCall)
    \/ RecDialOk(MainCall)
    \/ MainRecDialFail
    \/ PendReceive(MainCall, FirstTask)
    \/ MainFetchStep
    \/ LookupStep(FirstTask)
    \/ NewSimulatorOk
    \/ NewSimulatorDialFail
    \/ MainLaunchPools
    \/ \E w \in DecWorkers : DecWorkerStep(w)
    \/ \E w \in SimWorkers : SimWorkerStep(w)
    \/ ResultsCancel

SpecMain == Init /\ [][NextMain]_vars

\* Scheduling of the whole of main: every runnable goroutine runs, every timer
\* fires, every call to the upstream (subscribe, dial, lookup) returns.
MainScheduling ==
    /\ WF_vars(MonitorCancel(MainCall))
    /\ WF_vars(ProcessHeadsCancel(MainCall))
    /\ WF_vars(PendTop(MainCall) \/ PendWake(MainCall) \/ PendSleepCancel(MainCall)
               \/ PendServeCancel(MainCall))
    /\ WF_vars(RecTop(MainCall) \/ RecWake(MainCall) \/ RecSleepCancel(MainCall))
    /\ WF_vars(StartSubscribeOk(MainCall) \/ StartSubscribeFail(MainCall))
    /\ WF_vars(PendSubscribeOk(MainCall) \/ MainPendSubscribeFail)
    /\ WF_vars(RecDialOk(MainCall) \/ MainRecDialFail)
    /\ WF_vars(MainFetchStep)
    /\ WF_vars(LookupStep(FirstTask))
    /\ \A w \in DecWorkers : WF_vars(DecWorkerStep(w))
    /\ \A w \in SimWorkers : WF_vars(SimWorkerStep(w))
    /\ WF_vars(ResultsCancel)

FairMain == SpecMain /\ MainScheduling

\* The values and gas prices the exported SimulateTransaction is called with: around
\* the hundredth part, around 1 ETH, around 100 Gwei, and a price that is nil, zero
\* or negative (a *big.Int can be any of these).
EstValues ==
    {Zero, NewInt(99), NewInt(150), LargeValue, Add(LargeValue, NewInt(1)),
     MulSmall(LargeValue, 2)}

GasPrices ==
    {NilBig, NewInt(-1), Zero, NewInt(1), DefaultGasPrice, HighGasPrice,
     Add(HighGasPrice, NewInt(1))}

\* The success rates assessRiskLevel is called with (thousandths): the four rates
\* calculateSuccessRate produces, the two thresholds and their neighbours, the ends.
Rates == {0, 504, 560, 699, 700, 720, 800, 899, 900, 1000}

\* The Simulator used through its exported SimulateTransaction, on one event for
\* every value of EstValues and gas price of GasPrices, the RPC dial failing or
\* not; and assessRiskLevel on every rate of Rates.
NextEstimate ==
    \/ NewSimulatorOk
    \/ NewSimulatorDialFail
    \/ \E v \in EstValues, g \in GasPrices, dialOk \in BOOLEAN :
          SimulateTransaction(Event(1, v, g), dialOk)
    \/ \E r \in Rates : AssessRiskLevel(r)

SpecEstimate == Init /\ [][NextEstimate]_vars

\* The events the owner of decodedTxChan sends: a swap of 1 ETH at no stated gas
\* price, and a call of no value at gas price zero.
FeedInputs == {[Value |-> LargeValue, GasPrice |-> NilBig], [Value |-> Zero, GasPrice |-> Zero]}

\* The process is alive: no goroutine has panicked.
Alive == resPc # "panic"

\* The Estimation stage wired as its signatures require: NewSimulator,
\* StartWorkerPool(ctx, decodedTxChan, profitChan, PoolSize), processResults on
\* profitChan (started or not), the owner of decodedTxChan sending MaxFeed events
\* and calling the exported SimulateTransaction.
NextSim ==
    \/ Alive /\ Cancel
    \/ Alive /\ NewSimulatorOk
    \/ Alive /\ NewSimulatorDialFail
    \/ Alive /\ SimStartWorkerPool
    \/ Alive /\ ResultsStart
    \/ Alive /\ \E e \in FeedInputs : Feed(e.Value, e.GasPrice)
    \/ Alive /\ FeedNil
    \/ Alive /\ \E w \in SimWorkers : SimWorkerReady(w)
    \/ Alive /\ \E w \in SimWorkers : SimWorkerClientNil(w)
    \/ Alive /\ \E w \in SimWorkers : SimWorkerReconnectOk(w)
    \/ Alive /\ \E w \in SimWorkers : SimWorkerReconnectFail(w)
    \/ Alive /\ \E w \in SimWorkers : SimWorkerCancel(w)
    \/ Alive /\ \E w \in SimWorkers : SimWorkerReceive(w)
    \/ Alive /\ \E w \in SimWorkers, dialOk \in BOOLEAN : SimWorkerSimulate(w, dialOk)
    \/ Alive /\ \E w \in SimWorkers : SimWorkerScore(w)
    \/ Alive /\ \E w \in SimWorkers : SimWorkerSendOk(w)
    \/ Alive /\ \E w \in SimWorkers : SimWorkerSendCancel(w)
    \/ Alive /\ \E w \in SimWorkers : SimWorkerSendDrop(w)
    \/ Alive /\ ResultsReceive
    \/ Alive /\ ResultsCancel

SpecSim == Init /\ [][NextSim]_vars

\* The Simulator and its counters: the pool of workers on the events of the
\* owner of decodedTxChan, no one draining profitChan, and the owner calling the
\* exported SimulateTransaction as well.
NextCount ==
    \/ NewSimulatorOk
    \/ NewSimulatorDialFail
    \/ SimStartWorkerPool
    \/ \E e \in FeedInputs : Feed(e.Value, e.GasPrice)
    \/ \E w \in SimWorkers : SimWorkerReady(w)
    \/ \E w \in SimWorkers : SimWorkerClientNil(w)
    \/ \E w \in SimWorkers : SimWorkerReconnectOk(w)
    \/ \E w \in SimWorkers : SimWorkerReconnectFail(w)
    \/ \E w \in SimWorkers : SimWorkerReceive(w)
    \/ \E w \in SimWorkers, dialOk \in BOOLEAN : SimWorkerSimulate(w, dialOk)
    \/ \E w \in SimWorkers : SimWorkerScore(w)
    \/ \E w \in SimWorkers : SimWorkerSendOk(w)
    \/ \E w \in SimWorkers : SimWorkerSendDrop(w)
    \/ \E e \in FeedInputs, dialOk \in BOOLEAN :
          SimulateTransaction(Event(1, e.Value, e.GasPrice), dialOk)

SpecCount == Init /\ [][NextCount]_vars

(***************************************************************************)
(* The claims.                                                             *)
(***************************************************************************)

RECURSIVE Pow2(_)
Pow2(n) == IF n <= 0 THEN 1 ELSE 2 * Pow2(n - 1)

\* C1: in the pending-subscription loop the delay waited after the k-th
\* consecutive failed subscribe attempt is min(2^(k-1), 30) seconds (1, 2, 4, 8,
\* 16, 30, 30, ...).  While the loop sleeps, pendRetry is k and pendBackoff is
\* the delay being waited (MaxRetry >= 6, so the saturated counter is past the cap).
C1_BackoffSequence ==
    \A c \in Callers :
        pendPc[c] = "sleep" =>
            /\ pendRetry[c] >= 1
            /\ pendBackoff[c] = Min(Pow2(pendRetry[c] - 1), maxBackoff)
            /\ pendBackoff[c] <= maxBackoff

\* Five failures in a row and then the sixth: the cap is being waited.
C1_Witness ==
    \E c \in Callers : pendPc[c] = "sleep" /\ pendRetry[c] = 6 /\ pendBackoff[c] = maxBackoff

\* C2: a successful subscribe resets the backoff to the initial delay: while
\* subscribed the loop holds backoff = 1 s, and the first failure after a success
\* waits 1 s, whatever the backoff was before the success.
C2_ResetOnSuccess ==
    \A c \in Callers :
        /\ pendPc[c] = "serve" => pendBackoff[c] = InitialBackoff
        /\ (pendPc[c] = "sleep" /\ pendFresh[c]) => pendBackoff[c] = InitialBackoff

\* The first failure after a successful subscription is waiting its delay.
C2_Witness ==
    \E c \in Callers : pendPc[c] = "sleep" /\ pendFresh[c]

\* C3: the retries are unbounded: the pending-subscription loop has returned only
\* if the context is cancelled, and the reconnect loop has returned without a
\* successful reconnection only if the context is cancelled.
C3_NeverGivesUp ==
    \A c \in Callers :
        /\ pendPc[c] = "done" => ctxDone
        /\ recPc[c] = "done" => ctxDone
        /\ recPc[c] = "returned" => gen >= 1

\* Both loops are still retrying after MaxRetry consecutive failures, the context alive.
C3_Witness ==
    \E c \in Callers :
        /\ ~ctxDone
        /\ pendPc[c] = "sleep" /\ pendRetry[c] = MaxRetry
        /\ recPc[c] = "sleep" /\ recRetry[c] = MaxRetry

HeadSubscribed == headSubs # {}

\* C4: once the head subscription has reported an error (the head monitor has
\* launched reconnect), and unless the context is cancelled or Stop is called, the
\* Listener eventually holds an active head subscription again.
C4_EventuallyResubscribed ==
    \A c \in Callers :
        (monPc[c] = "done" /\ recPc[c] # "idle") ~> (ctxDone \/ stopCalled \/ HeadSubscribed)

\* C5: Start called while isRunning is true returns the already-running error and
\* changes no field of the Listener, opens no subscription and starts no goroutine.
C5_StartWhileRunning ==
    [][\A c \in Callers :
          (callPc[c] = "idle" /\ callPc'[c] # "idle" /\ isRunning) =>
              /\ callPc'[c] = "err_running"
              /\ UNCHANGED <<listenerVars, goVars>>]_vars

\* A Start call has returned the already-running error.
C5_Witness ==
    \E c \in Callers : callPc[c] = "err_running" /\ isRunning

C7_HandshakeFailureNotFatal ==
    \A c \in Callers :
        ~(callPc[c] = "err_subscribe" /\ ~isRunning /\ pendPc[c] = "idle" /\ monPc[c] = "idle")

\* C8: Stop is idempotent: applied to the state a Stop has left, Stop changes
\* nothing: the running flag stays false and no handle gets another Close.
C8_StopIdempotent ==
    LET first == StopEffect(ListenerState)
    IN  /\ StopEffect(first) = first
        /\ ~first.isRunning

\* A first Stop has closed both handles: the state a second Stop acts on.
C8_Witness ==
    /\ stopCalled
    /\ ~isRunning
    /\ clientCloses[client] = 1
    /\ rpcCloses[rpcClient] = 1

\* C9: whenever Stop returns, the running flag is false and both handles the
\* Listener owns have been closed.
C9_StopReleases ==
    [][Stop => (/\ ~isRunning'
                /\ clientCloses'[client'] > 0
                /\ rpcCloses'[rpcClient'] > 0)]_vars

\* C10: a loop that is in its backoff sleep when the context is cancelled makes no
\* further attempt: from the sleep, once the context is cancelled, its next step
\* is the return, never the subscribe or the dial.
C10_NoAttemptAfterCancel ==
    [][\A c \in Callers :
          /\ (ctxDone /\ pendPc[c] = "sleep") => pendPc'[c] \in {"sleep", "done"}
          /\ (ctxDone /\ recPc[c] = "sleep") => recPc'[c] \in {"sleep", "done"}]_vars

\* Both loops are in their backoff sleep and the context has been cancelled.
C10_Witness ==
    \E c \in Callers : ctxDone /\ pendPc[c] = "sleep" /\ recPc[c] = "sleep"

\* The goroutines that have been started and have not returned.
LiveGoroutines ==
    {<<"monitor", c>> : c \in {x \in Callers : monPc[x] \notin {"idle", "done"}}}
    \cup {<<"processHeads", c>> : c \in {x \in Callers : procPc[x] \notin {"idle", "done"}}}
    \cup {<<"pending", c>> : c \in {x \in Callers : pendPc[x] \notin {"idle", "done"}}}
    \cup {<<"reconnect", c>> : c \in {x \in Callers : recPc[x] \notin {"idle", "done", "returned"}}}
    \cup {<<"fetch", t>> : t \in {x \in Tasks : fetchPc[x] \notin ({"idle"} \cup FetchEnded)}}
    \cup {<<"decoder", w>> : w \in {x \in DecWorkers : decPc[x] \notin {"idle", "done"}}}
    \cup {<<"simulator", w>> : w \in {x \in SimWorkers : simPc[x] \notin {"idle", "done"}}}
    \cup (IF resPc = "run" THEN {<<"results", 1>>} ELSE {})

\* C11: once the context is cancelled, every goroutine of the pipeline eventually
\* has returned, and it stays so: from some point on, if the context is
\* cancelled, no started goroutine is left that has not returned.
C11_AllTerminateAfterCancel == <>[](ctxDone => LiveGoroutines = {})

\* The context is cancelled while the pending loop and the reconnect loop are in
\* their backoff sleeps, the fetch task waits to retry, and the head processor,
\* a Decoder worker, a Simulator worker and the result processor wait in their selects.
C11_Witness ==
    /\ ctxDone
    /\ pendPc[MainCall] = "sleep"
    /\ recPc[MainCall] = "sleep"
    /\ procPc[MainCall] = "run"
    /\ fetchPc[FirstTask] = "sleep"
    /\ \E w \in DecWorkers : decPc[w] = "recv"
    /\ \E w \in SimWorkers : simPc[w] = "recv"
    /\ resPc = "run"

\* C12: a fetch task makes at most MaxAttempts lookups (the lookup of iteration i
\* is the (i+1)-th); it makes a lookup only at its start or after the wait that
\* follows a lookup error, and that wait is 100 * k ms after the k-th failed
\* lookup (100, 200, 300); once a lookup has returned a transaction the task
\* makes no further lookup, and a confirmed transaction is discarded with nothing
\* sent and nothing counted; and every started task eventually returns.
C12_FetchAttempts ==
    /\ [](\A t \in Tasks :
            /\ fetchPc[t] = "lookup" => fetchTry[t] + 1 <= MaxAttempts
            /\ fetchPc[t] = "sleep" =>
                  /\ fetchTry[t] + 1 <= MaxAttempts
                  /\ fetchDelay[t] = RetryUnitMs * (fetchTry[t] + 1))
    /\ [][\A t \in Tasks :
            /\ (fetchPc[t] # "lookup" /\ fetchPc'[t] = "lookup") =>
                  fetchPc[t] \in {"start", "sleep"}
            /\ (fetchPc[t] = "lookup" /\ fetchPc'[t] # "lookup") =>
                  fetchPc'[t] \in {"sleep", "send", "confirmed"}
            /\ fetchPc[t] \in {"send", "count"} => fetchPc'[t] \notin {"lookup", "sleep"}
            /\ fetchPc[t] \in FetchEnded => fetchPc'[t] = fetchPc[t]
            /\ (fetchPc[t] = "lookup" /\ fetchPc'[t] = "confirmed") =>
                  (txChan' = txChan /\ txCount' = txCount)]_vars
    /\ \A t \in Tasks : (fetchPc[t] # "idle") ~> (fetchPc[t] \in FetchEnded)

\* A task waits 300 ms after its third failed lookup, and another has given up
\* after three.
C12_Witness ==
    \E t, u \in Tasks :
        /\ fetchPc[t] = "sleep" /\ fetchDelay[t] = 3 * RetryUnitMs
        /\ fetchPc[u] = "gave_up"

\* The counters a stats snapshot shows (Listener and Decoder; the fetch task has
\* no access to the Simulator's).
StatsCounters == <<txCount, processed, filtered, decoded>>

\* C13: when a fetch ends in a not-found/stale discard (the attempts are used up,
\* or the transaction is already confirmed), some stats counter changes.
C13_DiscardCounted ==
    [][\A t \in Tasks :
          (fetchPc[t] \notin {"gave_up", "confirmed"} /\ fetchPc'[t] \in {"gave_up", "confirmed"})
              => StatsCounters' # StatsCounters]_vars

\* C14: a fetch task at its send never blocks (one of the cases of the select can
\* be taken), and when it leaves the send with the channel full, the record is
\* dropped: the task returns, the channel contents are unchanged and txCount is
\* not incremented.
C14_NonBlockingSend ==
    /\ [](\A t \in Tasks :
            fetchPc[t] = "send" =>
                ENABLED (FetchSendOk(t) \/ FetchSendCancel(t) \/ FetchSendDrop(t)))
    /\ [][\A t \in Tasks :
            (fetchPc[t] = "send" /\ fetchPc'[t] # "send" /\ Len(txChan) >= TxChanCap) =>
                /\ fetchPc'[t] \in {"dropped", "cancelled"}
                /\ txChan' = txChan
                /\ txCount' = txCount]_vars

\* A task has dropped its record on the full channel while another task's record
\* is in the channel, the context alive.
C14_Witness ==
    \E t, u \in Tasks :
        /\ t # u
        /\ ~ctxDone
        /\ fetchPc[t] = "dropped"
        /\ fetchPc[u] \in {"count", "sent"}
        /\ Len(txChan) = TxChanCap

\* The last call of DecodeTransaction returned a decoded event.
Emitted == lastDecode.out # NilDecoded

\* C15: for a record with no recipient (a contract creation) decodeTransaction
\* returns at the recipient check with no event, filtered goes up by exactly 1 and
\* decoded is unchanged; and no event of a record without recipient is in the
\* input channel of the Estimation stage.
C15_ContractCreationFiltered ==
    /\ [](\A i \in DOMAIN decodedTxChan : decodedTxChan[i].Transaction.To # NilAddress)
    /\ [][lastDecode'.tx.To = NilAddress =>
            /\ lastDecode'.out = NilDecoded
            /\ lastDecode'.site = "recipient"
            /\ filtered' = filtered + 1
            /\ decoded' = decoded]_vars

\* A contract creation has been through DecodeTransaction, after an event was decoded.
C15_Witness ==
    /\ lastDecode.tx.To = NilAddress
    /\ filtered = 1
    /\ decoded = 1

Selectors == {SupportedSwapMethods[name] : name \in DOMAIN SupportedSwapMethods}

\* C16: every decoded event has IsSwap true, a 4-byte selector of the registry of
\* swap methods, the registry's name of that selector (never "unknown"), and as
\* target contract the transaction's recipient, a router of the registry.
C16_DecodedEventWellFormed ==
    Emitted =>
        LET ev == lastDecode.out IN
        /\ ev.IsSwap = TRUE
        /\ Len(ev.MethodID) = SelectorLen
        /\ ev.MethodID \in Selectors
        /\ ev.Method \in DOMAIN SupportedSwapMethods
        /\ SupportedSwapMethods[ev.Method] = ev.MethodID
        /\ ev.Method # "unknown"
        /\ ev.TargetContract = lastDecode.tx.To
        /\ ev.TargetContract \in SupportedDEX
        /\ ev.Transaction = lastDecode.tx

\* An event decoded from a call of swapExactTokensForTokens on the SushiSwap router.
C16_Witness ==
    /\ Emitted
    /\ lastDecode.out.Method = "swapExactTokensForTokens"
    /\ lastDecode.out.TargetContract = SushiSwapRouter

\* The check at which the filter of the spec rejects a record, the checks taken
\* in the order recipient, registry, length, selector.
SpecSite(tx) ==
    IF tx.To = NilAddress THEN "recipient"
    ELSE IF tx.To \notin SupportedDEX THEN "registry"
    ELSE IF tx.Data.len < SelectorLen THEN "length"
    ELSE IF tx.Data.head \notin Selectors THEN "selector"
    ELSE "decoded"

\* C17: decodeTransaction returns at the first failing check of the order
\* recipient, registry, length, selector (a record to an unknown address returns
\* at the registry check whatever its payload); a rejected record gives no event,
\* increments filtered exactly once and leaves decoded unchanged.
C17_FilterOrder ==
    /\ [](lastDecode.tx # NoTx => lastDecode.site = SpecSite(lastDecode.tx))
    /\ [][lastDecode'.site # "decoded" =>
            /\ lastDecode'.out = NilDecoded
            /\ filtered' = filtered + 1
            /\ decoded' = decoded]_vars

\* A record addressed to an unknown address with a payload shorter than 4 bytes
\* has been rejected.
C17_Witness ==
    /\ lastDecode.tx.To = OtherAddress
    /\ lastDecode.tx.Data.len < SelectorLen
    /\ lastDecode.site = "registry"
    /\ filtered = 2

\* C18: the direction of a decoded event follows its selector: 0x7ff36ab5 gives
\* buy with TokenIn the zero address (native currency), 0x18cbaf05 gives sell with
\* TokenOut the zero address, 0x38ed1739 gives swap with both token fields at
\* their zero value; the direction is always one of buy, sell, swap.
C18_SwapDirection ==
    Emitted =>
        LET ev == lastDecode.out IN
        /\ ev.SwapDirection \in {"buy", "sell", "swap"}
        /\ ev.MethodID = <<127, 243, 106, 181>> =>
              (ev.Method = "swapExactETHForTokens" /\ ev.SwapDirection = "buy"
               /\ ev.TokenIn = ZeroAddress)
        /\ ev.MethodID = <<24, 203, 175, 5>> =>
              (ev.Method = "swapExactTokensForETH" /\ ev.SwapDirection = "sell"
               /\ ev.TokenOut = ZeroAddress)
        /\ ev.MethodID = <<56, 237, 23, 57>> =>
              (ev.Method = "swapExactTokensForTokens" /\ ev.SwapDirection = "swap"
               /\ ev.TokenIn = ZeroAddress /\ ev.TokenOut = ZeroAddress)

\* A sell has been decoded.
C18_Witness ==
    /\ Emitted
    /\ lastDecode.out.MethodID = <<24, 203, 175, 5>>
    /\ lastDecode.out.SwapDirection = "sell"

\* C19 as stated: every decoded event carries an input amount equal to the
\* transaction's value.
C19_AmountIsValue ==
    Emitted => lastDecode.out.AmountIn = lastDecode.tx.Value

\* C19 as amended: a decoded event carries an input amount equal to the
\* transaction's value when the payload has the length of the method's full
\* argument list (4 + 32*4 bytes for swapExactETHForTokens, 4 + 32*5 bytes for
\* the two other methods); for a shorter payload it carries no input amount.
C19_AmountIsValueWhenArgsPresent ==
    Emitted =>
        LET ev == lastDecode.out
            need == IF ev.MethodID = <<127, 243, 106, 181>> THEN 4 + 32 * 4 ELSE 4 + 32 * 5
        IN  IF lastDecode.tx.Data.len >= need
               THEN ev.AmountIn = lastDecode.tx.Value
               ELSE ev.AmountIn = NilAmount

\* An event decoded from a payload that holds the selector alone: no input amount.
C19_Witness ==
    /\ Emitted
    /\ lastDecode.tx.Data.len = SelectorLen
    /\ lastDecode.tx.Value = 7
    /\ lastDecode.out.AmountIn = NilAmount

\* C20: whenever a Decoder worker decodes an event (decoded goes up), the event is
\* sent to the input channel of the Estimation stage.
C20_DecodedSentOnward ==
    [][decoded' = decoded + 1 => Len(decodedTxChan') = Len(decodedTxChan) + 1]_vars

(* ---- the Estimation stage ---- *)

\* The last call of the exported SimulateTransaction returned an analysis.
Estimated == lastEstimate.out # NilAnalysis

\* C21: in every analysis SimulateTransaction returns, NetProfit is the larger of
\* 0 and Profit - GasCost, and so is never negative.
C21_NetProfitFloored ==
    Estimated =>
        LET a == lastEstimate.out IN
          /\ a.NetProfit = BigMax(Zero, Sub(a.Profit, a.GasCost))
          /\ Cmp(a.NetProfit, Zero) >= 0

\* C22: in every analysis SimulateTransaction returns, Profit is the hundredth
\* part of the value of the transaction (integer division), whatever the gas cost.
C22_GrossIsHundredth ==
    Estimated => lastEstimate.out.Profit = DivSmall(lastEstimate.in.Value, ProfitDivisor)

SpecRate(v, g) ==
    (BaseRate * (IF Cmp(v, LargeValue) > 0 THEN LargeValueFactor ELSE 10)
              * (IF g # NilBig /\ Cmp(g, HighGasPrice) > 0 THEN HighGasPriceFactor ELSE 10))
        \div 100

\* C24: the success rate of every analysis lies in [0, 1] and is 0.8, multiplied
\* by 0.7 if the value is above 1 ETH and by 0.9 if the gas price is above
\* 100 Gwei; over the values and the stated gas prices it never grows with the
\* value nor with the gas price.
C24_SuccessRate ==
    /\ Estimated =>
          /\ lastEstimate.out.SuccessRate \in 0..RateUnit
          /\ lastEstimate.out.SuccessRate = SpecRate(lastEstimate.in.Value, lastEstimate.in.GasPrice)
    /\ \A v1, v2 \in EstValues, g1, g2 \in GasPrices \ {NilBig} :
          (Cmp(v1, v2) <= 0 /\ Cmp(g1, g2) <= 0) =>
              calculateSuccessRate(Event(1, v2, g2)) <= calculateSuccessRate(Event(1, v1, g1))

\* SimulateTransaction has returned the analysis of a transaction of exactly
\* 1 ETH at exactly 100 Gwei: no penalty applies at the thresholds.
C24_Witness ==
    /\ Estimated
    /\ lastEstimate.in.Value = LargeValue
    /\ lastEstimate.in.GasPrice = HighGasPrice
    /\ lastEstimate.out.SuccessRate = BaseRate

\* The risk bucket the specification asks for.
SpecRisk(rate) ==
    CASE rate >= LowRiskRate -> "low"
      [] rate >= MediumRiskRate /\ rate < LowRiskRate -> "medium"
      [] OTHER -> "high"

\* C25: the risk bucket is a function of the success rate alone, with the three
\* outcomes low (rate >= 0.9), medium (0.7 <= rate < 0.9) and high (otherwise),
\* both for assessRiskLevel on its own and in every analysis.
C25_RiskBucket ==
    /\ lastRisk.level # "none" => lastRisk.level = SpecRisk(lastRisk.rate)
    /\ Estimated => lastEstimate.out.RiskLevel = SpecRisk(lastEstimate.out.SuccessRate)

\* assessRiskLevel has been called with the rate 0.9 exactly, and has answered low.
C25_Witness == lastRisk.rate = LowRiskRate /\ lastRisk.level = "low"

\* C26: a Simulator worker at its send never blocks (one of the cases of the
\* select can be taken), and when it leaves the send with the channel full the
\* analysis is dropped: the channel is unchanged and the worker is back at the
\* receive of the next event (or has returned, the context being cancelled).
C26_EstimationNeverBlocks ==
    /\ [](\A w \in SimWorkers :
            simPc[w] = "send" =>
                ENABLED (SimWorkerSendOk(w) \/ SimWorkerSendCancel(w) \/ SimWorkerSendDrop(w)))
    /\ [][\A w \in SimWorkers :
            (simPc[w] = "send" /\ simPc'[w] # "send" /\ Len(profitChan) >= ProfitChanCap) =>
                /\ profitChan' = profitChan
                /\ simPc'[w] = IF ctxDone THEN "done" ELSE "recv"]_vars

\* Both workers have found the channel full, no result processor running: one
\* has dropped its analysis and is back at its receive, the other is at its send.
C26_Witness ==
    \E w, u \in SimWorkers, h \in Hashes :
        /\ w # u
        /\ ~ctxDone
        /\ resPc = "idle"
        /\ Len(profitChan) = ProfitChanCap
        /\ simLog.dropped[h] = 1
        /\ simPc[w] = "recv"
        /\ simPc[u] = "send"

\* The counters a stats snapshot of the Simulator shows.
SimCounters == <<simulated, profitable, failed>>

\* C27: when a worker drops an analysis on the full channel, a counter of the
\* Simulator other than failed goes up by one.
C27_DropCounted ==
    [][(\E h \in Hashes : simLog'.dropped[h] = simLog.dropped[h] + 1) =>
           /\ failed' = failed
           /\ SimCounters' # SimCounters]_vars

\* The number of analyses of hash h in the channel.
InChannel(h) == Cardinality({i \in 1..Len(profitChan) : profitChan[i].TxHash = h})

\* The workers that hold an event they have not yet sent on or dropped.
Holding == {w \in SimWorkers : simPc[w] \in {"simulate", "score", "send"}}

\* C28: every event is received by at most one worker, which is the only one to
\* hold it; at most one analysis of it is ever sent to the result processor, and
\* only after it was received; an event is held, sent or dropped, never two of
\* these, and a worker holds an analysis only of the event it holds.
C28_AtMostOnce ==
    /\ \A h \in Hashes :
          /\ simLog.recv[h] <= 1
          /\ simLog.sent[h] <= simLog.recv[h]
          /\ simLog.sent[h] + simLog.dropped[h] <= 1
          /\ InChannel(h) <= simLog.sent[h]
          /\ Cardinality({w \in SimWorkers : simEv[w] # NoEvent /\ simEv[w].Hash = h})
                 <= simLog.recv[h] - simLog.sent[h] - simLog.dropped[h]
          /\ Cardinality({w \in SimWorkers : simOut[w] # NilAnalysis /\ simOut[w].TxHash = h}) <= 1
    /\ \A w \in SimWorkers :
          /\ simOut[w] # NilAnalysis => simEv[w] # NoEvent /\ simOut[w].TxHash = simEv[w].Hash
          /\ simEv[w] # NoEvent <=> w \in Holding

\* Three events have been received, each by one worker: the analysis of one was
\* sent, that of another was dropped, the third is held by a worker.
C28_Witness ==
    \E h1, h2, h3 \in Hashes :
        /\ h1 # h2 /\ h2 # h3 /\ h1 # h3
        /\ simLog.sent[h1] = 1
        /\ simLog.dropped[h2] = 1
        /\ \E w \in SimWorkers : simEv[w] # NoEvent /\ simEv[w].Hash = h3

\* C29: every handle the Listener has replaced, lookup client or RPC client, has
\* been closed: no handle older than the one the Listener holds is open.
C29_DiscardedHandlesClosed ==
    \A h \in Handles :
        /\ h < client => clientCloses[h] > 0
        /\ h < rpcClient => rpcCloses[h] > 0

\* C30: the result processor never faults on an analysis it receives.
C30_SinkNeverFaults == resPc # "panic"

\* C31: a Simulator worker leaves the pool only on cancellation: whenever a
\* worker returns, the context is done.
C31_WorkerLeavesOnlyOnCancel ==
    [][\A w \in SimWorkers : (simPc[w] # "done" /\ simPc'[w] = "done") => ctxDone]_vars

\* C40: the Simulator establishes at most one RPC connection, however many
\* workers start while it has no client.
C40_AtMostOneConnection == simDials <= 1

\* C32: after Stop, and as long as Start is not called again, the running flag
\* stays false: once Stop has been called, the only step that sets the flag is
\* the lock section of a new Start call.
C32_StoppedStaysStopped ==
    [][(stopCalled /\ ~isRunning /\ isRunning') =>
           \E c \in Callers : callPc[c] = "idle" /\ callPc'[c] = "subscribing"]_vars

\* C33: once the context is cancelled, the running flag eventually is false and
\* stays false.
C33_StoppedAfterCancel == ctxDone ~> [](~isRunning)

\* C36: in every state of the Decoder the records filtered and the records
\* decoded are together no more than the records processed, calls of the
\* exported DecodeTransaction included.
C36_CountersBounded == filtered + decoded <= processed

\* C37: FilterTransaction answers true exactly on the records DecodeTransaction
\* returns a decoded event for, and a call of it changes no counter of the Decoder.
C37_FilterAgreesWithDecode ==
    /\ [](lastFilter.tx # NoTx =>
            (lastFilter.ok <=> DecodeResult(lastFilter.tx).out # NilDecoded))
    /\ [][lastFilter' # lastFilter => UNCHANGED <<processed, filtered, decoded>>]_vars

\* Both methods have been called on one record, a swap: the filter answered true
\* and the decoder returned an event.
C37_Witness ==
    /\ lastFilter.tx = lastDecode.tx
    /\ lastFilter.ok
    /\ lastDecode.out # NilDecoded

\* C39: no analysis SimulateTransaction returns has the risk bucket low: its
\* success rate is at most 0.8, and the bucket is medium exactly for the rates
\* 0.8 and 0.72 and high exactly for the rates 0.56 and 0.504.
C39_NeverLowRisk ==
    Estimated =>
        LET a == lastEstimate.out
            afterGas == (BaseRate * HighGasPriceFactor) \div 10
            afterValue == (BaseRate * LargeValueFactor) \div 10
            afterBoth == (afterValue * HighGasPriceFactor) \div 10
        IN  /\ a.RiskLevel # "low"
            /\ a.SuccessRate <= BaseRate
            /\ a.RiskLevel = "medium" <=> a.SuccessRate \in {BaseRate, afterGas}
            /\ a.RiskLevel = "high" <=> a.SuccessRate \in {afterValue, afterBoth}

\* SimulateTransaction has returned the analysis of a transaction above 1 ETH at
\* a gas price above 100 Gwei (rate 0.504, bucket high), the other one of 1 ETH
\* exactly at no stated gas price being the best case (rate 0.8, bucket medium).
C39_Witness ==
    /\ Estimated
    /\ Cmp(lastEstimate.in.Value, LargeValue) > 0
    /\ lastEstimate.in.GasPrice # NilBig
    /\ Cmp(lastEstimate.in.GasPrice, HighGasPrice) > 0
    /\ lastEstimate.out.RiskLevel = "high"
    /\ BuildAnalysis(Event(1, LargeValue, NilBig)).RiskLevel = "medium"

\* The SimulateTransaction calls begun: by the workers (every event received,
\* less those whose worker has not yet made the call) and by the owner.
RECURSIVE SumRecv(_)
SumRecv(hs) ==
    IF hs = {} THEN 0
    ELSE LET h == CHOOSE x \in hs : TRUE IN simLog.recv[h] + SumRecv(hs \ {h})

CallsBegun ==
    SumRecv(Hashes) - Cardinality({w \in SimWorkers : simPc[w] = "simulate"}) + simLog.calls

\* C38: profitable + failed never exceeds simulated; simulated is the number of
\* SimulateTransaction calls begun; a call adds one to failed exactly when it
\* returns no analysis and one to profitable exactly when the analysis it returns
\* has NetProfit > 0; no other step changes a counter.
C38_CountersConsistent ==
    /\ [](profitable + failed <= simulated)
    /\ [](simulated = CallsBegun)
    /\ [][\/ \E w \in SimWorkers :
               /\ simPc[w] = "simulate" /\ simPc'[w] \in {"score", "recv"}
               /\ simulated' = simulated + 1
               /\ failed' = failed + (IF simPc'[w] = "recv" THEN 1 ELSE 0)
               /\ profitable' = profitable
          \/ \E w \in SimWorkers :
               /\ simPc[w] = "score" /\ simPc'[w] = "send"
               /\ simulated' = simulated
               /\ failed' = failed
               /\ profitable' =
                     profitable + (IF Cmp(simOut'[w].NetProfit, Zero) > 0 THEN 1 ELSE 0)
          \/ /\ simLog'.calls = simLog.calls + 1
             /\ simulated' = simulated + 1
             /\ failed' = failed + (IF lastEstimate'.out = NilAnalysis THEN 1 ELSE 0)
             /\ profitable' =
                   profitable + (IF /\ lastEstimate'.out # NilAnalysis
                                    /\ Cmp(lastEstimate'.out.NetProfit, Zero) > 0
                                    THEN 1 ELSE 0)
          \/ UNCHANGED SimCounters]_vars

\* The owner's call failed for want of a connection, then the workers made two
\* calls: one analysis with a positive NetProfit, one without.
C38_Witness ==
    /\ simulated = 3
    /\ failed = 1
    /\ profitable = 1
    /\ simLog.calls = 1
    /\ \E w \in SimWorkers :
          /\ simPc[w] = "send"
          /\ Cmp(simOut[w].NetProfit, Zero) <= 0

\* The callers whose Start has a pending-subscription loop, a head monitor, that
\* has not returned.
PendingLoops == {c \in Callers : pendPc[c] \notin {"idle", "done"}}
HeadMonitors == {c \in Callers : monPc[c] \notin {"idle", "done"}}

ClientInUse ==
    \/ \E c \in Callers : callPc[c] = "subscribing"
    \/ \E t \in Tasks : fetchPc[t] = "lookup"
RpcClientInUse == \E c \in Callers : pendPc[c] = "subscribe"

\* C35: a connection handle of the Listener is never swapped or closed while a
\* subscribe or fetch call is using it.
C35_HandleStableWhileInUse ==
    [][/\ ClientInUse => (client' = client /\ clientCloses' = clientCloses)
       /\ RpcClientInUse => (rpcClient' = rpcClient /\ rpcCloses' = rpcCloses)]_vars
====
